---- MODULE Spec2Model ----
(***************************************************************************)
(* Model of the configuration creator (src/create_configuration.py): path  *)
(* safety, configuration normalization, the configuration registry and the *)
(* registry upsert.                                                        *)
(*                                                                         *)
(* Python strings are sequences of one-character strings, so that strip,   *)
(* replace, split and startswith are computed as the code computes them.   *)
(* JSON values are tagged records: [t |-> "str", v |-> chars],             *)
(* [t |-> "bool", v |-> b], [t |-> "num", v |-> n], [t |-> "null"],        *)
(* [t |-> "list", v |-> seq], [t |-> "dict", v |-> function on keys].      *)
(***************************************************************************)
EXTENDS Integers, Sequences, FiniteSets, TLC

VARIABLES
    pathPc,       \* "idle", "normalized" or "renormalized"
    pathRaw,      \* argument of the last normalize_relative_path call
    pathOut,      \* its outcome
    pathOut2,     \* outcome of normalizing pathOut's value again
    fldPc,        \* "idle" or "normalized"
    fldRaw,       \* argument of the last normalize_folders call
    fldOut,       \* its outcome
    rulesPc,      \* "idle" or "normalized"
    rulesRaw,     \* argument of the last normalize_files call
    rulesOut,     \* its outcome
    cfgPc,        \* "idle" or "normalized"
    cfgRaw,       \* argument of the last normalize_configuration_payload call
    cfgOut,       \* its outcome
    regPc,        \* "idle" or "loaded"
    regIndex,     \* the index document read by the last registry load
    regOut,       \* outcome of the load
    crPc,         \* position of the creator run
    indexFile,    \* the entries of the index document on disk
    crEntries,    \* the entry list of the run, in memory
    crId,         \* the identifier of the run's payload
    crError,      \* the error the run ended with
    configFiles,  \* the configuration files written by the runs
    indexExists,  \* whether the index file exists on disk
    crWrites,     \* the write_json_file calls of the run, in order
    idPc,         \* "idle" or "normalized"
    idRaw,        \* the document of the last identifier normalization
    idOut,        \* its outcome
    phPc,         \* "idle" or "validated"
    phRule,       \* the file rule of the last template validation
    phSourceOut,  \* outcome of validate_placeholders on its source
    phTargetOut,  \* outcome of validate_placeholders on its target
    phOut,        \* outcome of normalize_file_rule on the rule
    setupPc,      \* position of the project setup run
    setupConfig,  \* the answers of get_user_input
    setupStep,    \* index of the next folder or file step
    setupDirs,    \* the directories below the project directory
    setupFiles,   \* the files below the project directory
    genPc,        \* position of the generation run
    genRaw,       \* the configuration document of the run
    genConfig,    \* outcome of its normalization
    genRule,      \* position of the next file rule, one-based
    genProject,   \* the files of the generated project tree
    genGenerated, \* the generated paths, each with the position of its rule
    genError,     \* the error the run failed with
    reqPc,        \* "idle" or "validated"
    reqData,      \* the list handed to the last validate_requirement_list call
    reqKeys,      \* its required keys
    reqOut,       \* its result
    docPc,        \* position of the build_docs run
    docHigh,      \* the loaded high-level document
    docSoftware,  \* the loaded software document
    docCleanHigh, \* the cleaned high-level list
    docCleanSoftware, \* the cleaned software list
    docErrors,    \* the errors handed to add_error
    docLinks,     \* the link index, forward (sw) and backward (hl) keys
    docDangling,  \* the dangling identifiers
    docPages,     \* the pages have been written
    encPc,        \* position of the _plantuml_encode call
    encText,      \* puml_text
    encCompressed, \* the compressed bytes
    encI,         \* the loop index i
    encChars,     \* encoded_chars
    encToken,     \* the returned token
    encCalls,     \* the number of calls made
    encPrev,      \* the text and the token of the previous call
    trPc,         \* position of the transcoding loop
    trCompressed, \* compressed
    trI,          \* the loop index i
    trChars,      \* encoded_chars
    trToken,      \* the returned token
    rdPc,         \* position of the render_puml_to_svg call
    rdText,       \* puml_text
    rdUrl,        \* the token in the request URL
    rdRequests,   \* the number of requests made
    rdResponse,   \* what requests.get returned or raised
    rdOut,        \* the value returned
    chPc,         \* position in the writing of the executable files
    chUmask,      \* the umask of the process
    chStep,       \* the file being written
    chModes,      \* the permission mode of each file written so far
    edPc,         \* position of the editor session
    edFiles,      \* payload['files']
    edOps         \* operations done in the session

pathVars == <<pathPc, pathRaw, pathOut, pathOut2>>
fldVars == <<fldPc, fldRaw, fldOut>>
rulesVars == <<rulesPc, rulesRaw, rulesOut>>
cfgVars == <<cfgPc, cfgRaw, cfgOut>>
regVars == <<regPc, regIndex, regOut>>
crVars == <<crPc, indexFile, crEntries, crId, crError, configFiles, indexExists, crWrites>>
idVars == <<idPc, idRaw, idOut>>
phVars == <<phPc, phRule, phSourceOut, phTargetOut, phOut>>
setupVars == <<setupPc, setupConfig, setupStep, setupDirs, setupFiles>>
genVars == <<genPc, genRaw, genConfig, genRule, genProject, genGenerated, genError>>
reqVars == <<reqPc, reqData, reqKeys, reqOut>>
docVars == <<docPc, docHigh, docSoftware, docCleanHigh, docCleanSoftware, docErrors, docLinks, docDangling, docPages>>
encVars == <<encPc, encText, encCompressed, encI, encChars, encToken, encCalls, encPrev>>
trVars == <<trPc, trCompressed, trI, trChars, trToken>>
rdVars == <<rdPc, rdText, rdUrl, rdRequests, rdResponse, rdOut>>
chVars == <<chPc, chUmask, chStep, chModes>>
edVars == <<edPc, edFiles, edOps>>

vars == <<pathVars, fldVars, rulesVars, cfgVars, regVars, crVars, idVars, phVars, setupVars, genVars, reqVars, docVars, encVars, trVars, rdVars, chVars, edVars>>

----------------------------------------------------------------------------
(* Bounds *)

MaxPathLen == 3
MaxFolders == 3
MaxRules == 2
MaxCfgFolders == 2
MaxCfgRules == 2
MaxEntries == 2
MaxIndex == 2
MaxIdLen == 3
MaxTokens == 2
MaxComponents == 2
MaxGenRules == 2
MaxReqs == 3
MaxHigh == 2
MaxSoftware == 2
MaxText == 2
MaxCalls == 2
MaxBytes == 5
\* operations of one editor session
MaxOps == 3

----------------------------------------------------------------------------
(* Python str helpers *)

SeqsUpTo(S, n) == UNION {[1..k -> S] : k \in 0..n}

Whitespace == {" "}

RECURSIVE LStripChars(_, _)
LStripChars(s, cs) ==
    IF s # <<>> /\ Head(s) \in cs THEN LStripChars(Tail(s), cs) ELSE s

RECURSIVE RStripChars(_, _)
RStripChars(s, cs) ==
    IF s # <<>> /\ s[Len(s)] \in cs
    THEN RStripChars(SubSeq(s, 1, Len(s) - 1), cs)
    ELSE s

\* str.strip(chars)
StripChars(s, cs) == RStripChars(LStripChars(s, cs), cs)

\* str.strip()
Strip(s) == StripChars(s, Whitespace)

\* str.replace(old, new) for one-character old and new
Replace(s, old, new) == [i \in 1..Len(s) |-> IF s[i] = old THEN new ELSE s[i]]

\* str.startswith(prefix)
StartsWith(s, prefix) ==
    Len(prefix) <= Len(s) /\ SubSeq(s, 1, Len(prefix)) = prefix

\* str.split(sep) for a one-character sep: always at least one part
RECURSIVE Split(_, _)
Split(s, sep) ==
    IF \A i \in 1..Len(s) : s[i] # sep
    THEN <<s>>
    ELSE LET k == CHOOSE i \in 1..Len(s) :
                      s[i] = sep /\ \A j \in 1..(i - 1) : s[j] # sep
         IN <<SubSeq(s, 1, k - 1)>> \o Split(SubSeq(s, k + 1, Len(s)), sep)

Range(s) == {s[i] : i \in 1..Len(s)}

----------------------------------------------------------------------------
(* fail(): print the message and exit the process.  A call that ended in   *)
(* fail() has the outcome Exit(error); a call that returned has the        *)
(* outcome Return(value).                                                  *)

NoValue == [t |-> "none"]
NoError == [kind |-> "none", label |-> ""]

Exit(error) == [exited |-> TRUE, error |-> error, value |-> NoValue]
Return(value) == [exited |-> FALSE, error |-> NoError, value |-> value]

Err(kind, label) == [kind |-> kind, label |-> label]

----------------------------------------------------------------------------
(* PathSafety *)

DotDot == <<".", ".">>

\* Mutant: leading and trailing slashes are not stripped.
normalize_relative_path_keeps_slashes(raw_path, label) ==
    LET value == Replace(Strip(raw_path), "\\", "/")
        parts == SelectSeq(Split(value, "/"), LAMBDA part : part # <<>>)
    IN IF value = <<>>
       THEN Exit(Err("InvalidPath: cannot be empty", label))
       ELSE IF StartsWith(value, <<"/">>) \/ StartsWith(value, <<"~">>)
       THEN Exit(Err("InvalidPath: must be relative", label))
       ELSE IF \E i \in 1..Len(parts) : parts[i] = DotDot
       THEN Exit(Err("InvalidPath: contains invalid '..'", label))
       ELSE Return(value)

normalize_relative_path(raw_path, label) ==
    LET value == StripChars(Replace(Strip(raw_path), "\\", "/"), {"/"})
        parts == SelectSeq(Split(value, "/"), LAMBDA part : part # <<>>)
    IN IF value = <<>>
       THEN Exit(Err("InvalidPath: cannot be empty", label))
       ELSE IF StartsWith(value, <<"/">>) \/ StartsWith(value, <<"~">>)
       THEN Exit(Err("InvalidPath: must be relative", label))
       ELSE IF \E i \in 1..Len(parts) : parts[i] = DotDot
       THEN Exit(Err("InvalidPath: contains invalid '..'", label))
       ELSE Return(value)

InvalidPathKinds ==
    { "InvalidPath: cannot be empty",
      "InvalidPath: must be relative",
      "InvalidPath: contains invalid '..'" }

----------------------------------------------------------------------------
(* Character classes and string constants of the program *)

Lowercase == {"a", "b", "c", "d", "e", "f", "g", "h", "i", "j", "k", "l", "m", "n", "o", "p", "q", "r", "s", "t", "u", "v", "w", "x", "y", "z"}
Uppercase == {"A", "B", "C", "D", "E", "F", "G", "H", "I", "J", "K", "L", "M", "N", "O", "P", "Q", "R", "S", "T", "U", "V", "W", "X", "Y", "Z"}
Digits == {"0", "1", "2", "3", "4", "5", "6", "7", "8", "9"}
DigitChar == <<"0", "1", "2", "3", "4", "5", "6", "7", "8", "9">>
LowerOf == ("A" :> "a") @@ ("B" :> "b") @@ ("C" :> "c") @@ ("D" :> "d") @@ ("E" :> "e") @@ ("F" :> "f") @@ ("G" :> "g") @@ ("H" :> "h") @@ ("I" :> "i") @@ ("J" :> "j") @@ ("K" :> "k") @@ ("L" :> "l") @@ ("M" :> "m") @@ ("N" :> "n") @@ ("O" :> "o") @@ ("P" :> "p") @@ ("Q" :> "q") @@ ("R" :> "r") @@ ("S" :> "s") @@ ("T" :> "t") @@ ("U" :> "u") @@ ("V" :> "v") @@ ("W" :> "w") @@ ("X" :> "x") @@ ("Y" :> "y") @@ ("Z" :> "z")

\* str.lower()
Lower(s) == [i \in 1..Len(s) |-> IF s[i] \in Uppercase THEN LowerOf[s[i]] ELSE s[i]]

S_lang == <<"l", "a", "n", "g">>
S_lang_folder == <<"l", "a", "n", "g", "_", "f", "o", "l", "d", "e", "r">>
S_project_name == <<"p", "r", "o", "j", "e", "c", "t", "_", "n", "a", "m", "e">>
S_none == <<"n", "o", "n", "e">>
S_replace_heading == <<"r", "e", "p", "l", "a", "c", "e", "_", "f", "i", "r", "s", "t", "_", "h", "e", "a", "d", "i", "n", "g", "_", "w", "i", "t", "h", "_", "p", "r", "o", "j", "e", "c", "t", "_", "n", "a", "m", "e">>
S_rule_ == <<"r", "u", "l", "e", "_">>
S_PyNone == <<"N", "o", "n", "e">>
S_PyTrue == <<"T", "r", "u", "e">>
S_PyFalse == <<"F", "a", "l", "s", "e">>
S_docs_venv == <<"A", "u", "t", "o", "m", "a", "t", "i", "o", "n", "/", "d", "o", "c", "s", "_", "v", "e", "n", "v">>
S_pyyaml == <<"p", "y", "y", "a", "m", "l">>
S_requests == <<"r", "e", "q", "u", "e", "s", "t", "s">>
S_owner == <<"o", "w", "n", "e", "r">>
S_user_generated == <<"u", "s", "e", "r", "_", "g", "e", "n", "e", "r", "a", "t", "e", "d">>

ALLOWED_PLACEHOLDERS == {S_lang, S_lang_folder, S_project_name}
ALLOWED_POST_PROCESS == {S_none, S_replace_heading}

----------------------------------------------------------------------------
(* JSON values *)

JStr(s) == [t |-> "str", v |-> s]
JBool(b) == [t |-> "bool", v |-> b]
JNum(n) == [t |-> "num", v |-> n]
JNull == [t |-> "null"]
JList(items) == [t |-> "list", v |-> items]
JDict(f) == [t |-> "dict", v |-> f]

\* dict.get(key, default)
Get(d, key, default) == IF key \in DOMAIN d.v THEN d.v[key] ELSE default

\* str(n) for a natural number
RECURSIVE Decimal(_)
Decimal(n) ==
    IF n < 10 THEN <<DigitChar[n + 1]>>
    ELSE Decimal(n \div 10) \o <<DigitChar[(n % 10) + 1]>>

\* str(x) for a string, None, a boolean or a natural number
PyStr(x) ==
    CASE x.t = "str" -> x.v
      [] x.t = "null" -> S_PyNone
      [] x.t = "bool" -> (IF x.v THEN S_PyTrue ELSE S_PyFalse)
      [] x.t = "num" -> Decimal(x.v)

----------------------------------------------------------------------------
(* ConfigurationValidator *)

\* re.sub(r"_+", "_", value)
RECURSIVE CollapseUnderscores(_)
CollapseUnderscores(s) ==
    IF Len(s) < 2 THEN s
    ELSE IF s[1] = "_" /\ s[2] = "_" THEN CollapseUnderscores(Tail(s))
    ELSE <<s[1]>> \o CollapseUnderscores(Tail(s))

\* Mutant: the leading and trailing underscores are kept.
normalize_config_id_keep_edges(raw_id) ==
    LET value1 == Replace(Replace(Lower(Strip(raw_id)), "-", "_"), " ", "_")
        value2 == SelectSeq(value1, LAMBDA c : c \in Lowercase \cup Digits \cup {"_"})
    IN CollapseUnderscores(value2)

normalize_config_id(raw_id) ==
    LET value1 == Replace(Replace(Lower(Strip(raw_id)), "-", "_"), " ", "_")
        value2 == SelectSeq(value1, LAMBDA c : c \in Lowercase \cup Digits \cup {"_"})
    IN StripChars(CollapseUnderscores(value2), {"_"})

WordChars == Lowercase \cup Uppercase \cup Digits \cup {"_"}

\* Length of the longest run of word characters at the head of s.
RECURSIVE WordRun(_)
WordRun(s) ==
    IF s # <<>> /\ Head(s) \in WordChars THEN 1 + WordRun(Tail(s)) ELSE 0

\* PLACEHOLDER_PATTERN.findall(value): the names of the non-overlapping
\* matches of \{([a-zA-Z0-9_]+)\}, left to right.
RECURSIVE FindPlaceholders(_)
FindPlaceholders(s) ==
    IF s = <<>> THEN <<>>
    ELSE IF Head(s) # "{" THEN FindPlaceholders(Tail(s))
    ELSE LET n == WordRun(Tail(s))
         IN IF n > 0 /\ Len(s) >= n + 2 /\ s[n + 2] = "}"
            THEN <<SubSeq(s, 2, n + 1)>>
                     \o FindPlaceholders(SubSeq(s, n + 3, Len(s)))
            ELSE FindPlaceholders(Tail(s))

\* Mutant: only the first placeholder of the template is tested.
validate_placeholders_first_only(value, label) ==
    LET found == FindPlaceholders(value)
    IN IF found # <<>> /\ found[1] \notin ALLOWED_PLACEHOLDERS
       THEN Exit(Err("UnsupportedPlaceholder", label))
       ELSE Return(<<>>)

\* Returns None, or exits at the first placeholder outside the whitelist.
validate_placeholders(value, label) ==
    LET found == FindPlaceholders(value)
    IN IF \E i \in 1..Len(found) : found[i] \notin ALLOWED_PLACEHOLDERS
       THEN Exit(Err("UnsupportedPlaceholder", label))
       ELSE Return(<<>>)

\* The loop of normalize_folders from item i on.
RECURSIVE folders_loop(_, _, _, _)
folders_loop(items, i, normalized, seen) ==
    IF i > Len(items) THEN Return(normalized)
    ELSE IF items[i].t # "str"
    THEN Exit(Err("Every folder path must be a string", "folders"))
    ELSE LET folder == normalize_relative_path(items[i].v, "Folder path")
         IN IF folder.exited THEN folder
            ELSE IF folder.value \notin seen
            THEN folders_loop(items, i + 1, Append(normalized, folder.value),
                              seen \cup {folder.value})
            ELSE folders_loop(items, i + 1, normalized, seen)

\* Mutant of the loop: the 'seen' test is dropped, every item is appended.
RECURSIVE folders_loop_keep_duplicates(_, _, _, _)
folders_loop_keep_duplicates(items, i, normalized, seen) ==
    IF i > Len(items) THEN Return(normalized)
    ELSE IF items[i].t # "str"
    THEN Exit(Err("Every folder path must be a string", "folders"))
    ELSE LET folder == normalize_relative_path(items[i].v, "Folder path")
         IN IF folder.exited THEN folder
            ELSE folders_loop_keep_duplicates(
                     items, i + 1, Append(normalized, folder.value), seen)

normalize_folders_keep_duplicates(raw_folders) ==
    IF raw_folders.t # "list"
    THEN Exit(Err("'folders' must be a list", "folders"))
    ELSE folders_loop_keep_duplicates(raw_folders.v, 1, <<>>, {})

normalize_folders(raw_folders) ==
    IF raw_folders.t # "list"
    THEN Exit(Err("'folders' must be a list", "folders"))
    ELSE folders_loop(raw_folders.v, 1, <<>>, {})

\* index is the zero-based position of the rule, as in the code.
\* Mutant: a rule without 'enabled' is taken as disabled.
normalize_file_rule_default_disabled(raw_rule, index) ==
    IF raw_rule.t # "dict"
    THEN Exit(Err("File rule must be an object", "files"))
    ELSE
    LET stripped_id == Strip(PyStr(Get(raw_rule, "id", JStr(<<>>))))
        rule_id == IF stripped_id # <<>> THEN stripped_id
                   ELSE S_rule_ \o Decimal(index + 1)
        source == Get(raw_rule, "source", JNull)
        target == Get(raw_rule, "target", JNull)
        enabled == Get(raw_rule, "enabled", JBool(FALSE))
        executable == Get(raw_rule, "executable", JBool(FALSE))
    IN IF source.t # "str" \/ Strip(source.v) = <<>>
       THEN Exit(Err("File rule requires a non-empty string 'source'", "source"))
       ELSE IF target.t # "str" \/ Strip(target.v) = <<>>
       THEN Exit(Err("File rule requires a non-empty string 'target'", "target"))
       ELSE
       LET source2 == Replace(Strip(source.v), "\\", "/")
           target2 == Replace(Strip(target.v), "\\", "/")
           post_stripped == Strip(PyStr(Get(raw_rule, "post_process", JStr(S_none))))
           post_process == IF post_stripped # <<>> THEN post_stripped ELSE S_none
       IN IF validate_placeholders(source2, "source").exited
          THEN validate_placeholders(source2, "source")
          ELSE IF validate_placeholders(target2, "target").exited
          THEN validate_placeholders(target2, "target")
          ELSE IF enabled.t # "bool"
          THEN Exit(Err("File rule field 'enabled' must be boolean", "enabled"))
          ELSE IF executable.t # "bool"
          THEN Exit(Err("File rule field 'executable' must be boolean", "executable"))
          ELSE IF post_process \notin ALLOWED_POST_PROCESS
          THEN Exit(Err("File rule uses unsupported post_process", "post_process"))
          ELSE Return([id |-> rule_id,
                       source |-> source2,
                       target |-> target2,
                       enabled |-> enabled.v,
                       executable |-> executable.v,
                       post_process |-> post_process])

normalize_file_rule(raw_rule, index) ==
    IF raw_rule.t # "dict"
    THEN Exit(Err("File rule must be an object", "files"))
    ELSE
    LET stripped_id == Strip(PyStr(Get(raw_rule, "id", JStr(<<>>))))
        rule_id == IF stripped_id # <<>> THEN stripped_id
                   ELSE S_rule_ \o Decimal(index + 1)
        source == Get(raw_rule, "source", JNull)
        target == Get(raw_rule, "target", JNull)
        enabled == Get(raw_rule, "enabled", JBool(TRUE))
        executable == Get(raw_rule, "executable", JBool(FALSE))
    IN IF source.t # "str" \/ Strip(source.v) = <<>>
       THEN Exit(Err("File rule requires a non-empty string 'source'", "source"))
       ELSE IF target.t # "str" \/ Strip(target.v) = <<>>
       THEN Exit(Err("File rule requires a non-empty string 'target'", "target"))
       ELSE
       LET source2 == Replace(Strip(source.v), "\\", "/")
           target2 == Replace(Strip(target.v), "\\", "/")
           post_stripped == Strip(PyStr(Get(raw_rule, "post_process", JStr(S_none))))
           post_process == IF post_stripped # <<>> THEN post_stripped ELSE S_none
       IN IF validate_placeholders(source2, "source").exited
          THEN validate_placeholders(source2, "source")
          ELSE IF validate_placeholders(target2, "target").exited
          THEN validate_placeholders(target2, "target")
          ELSE IF enabled.t # "bool"
          THEN Exit(Err("File rule field 'enabled' must be boolean", "enabled"))
          ELSE IF executable.t # "bool"
          THEN Exit(Err("File rule field 'executable' must be boolean", "executable"))
          ELSE IF post_process \notin ALLOWED_POST_PROCESS
          THEN Exit(Err("File rule uses unsupported post_process", "post_process"))
          ELSE Return([id |-> rule_id,
                       source |-> source2,
                       target |-> target2,
                       enabled |-> enabled.v,
                       executable |-> executable.v,
                       post_process |-> post_process])

\* The loop of normalize_files from item i on (i is one-based here, the
\* code's index is i - 1).
RECURSIVE files_loop(_, _, _, _)
files_loop(items, i, normalized, seen_ids) ==
    IF i > Len(items) THEN Return(normalized)
    ELSE LET rule == normalize_file_rule(items[i], i - 1)
         IN IF rule.exited THEN rule
            ELSE IF rule.value.id \in seen_ids
            THEN Exit(Err("DuplicateRuleId", "files"))
            ELSE files_loop(items, i + 1, Append(normalized, rule.value),
                            seen_ids \cup {rule.value.id})

\* Mutant of normalize_files: the seen_ids test is dropped.
RECURSIVE files_loop_no_duplicate_check(_, _, _, _)
files_loop_no_duplicate_check(items, i, normalized, seen_ids) ==
    IF i > Len(items) THEN Return(normalized)
    ELSE LET rule == normalize_file_rule(items[i], i - 1)
         IN IF rule.exited THEN rule
            ELSE files_loop_no_duplicate_check(
                     items, i + 1, Append(normalized, rule.value), seen_ids)

normalize_files_no_duplicate_check(raw_files) ==
    IF raw_files.t # "list"
    THEN Exit(Err("'files' must be a list", "files"))
    ELSE files_loop_no_duplicate_check(raw_files.v, 1, <<>>, {})

normalize_files(raw_files) ==
    IF raw_files.t # "list"
    THEN Exit(Err("'files' must be a list", "files"))
    ELSE files_loop(raw_files.v, 1, <<>>, {})

default_runtime ==
    [setup_docs_venv |-> TRUE,
     docs_venv_path |-> S_docs_venv,
     docs_packages |-> <<S_pyyaml, S_requests>>]

default_behavior == [add_gitkeep_to_empty_folders |-> TRUE]

normalize_runtime(raw_runtime) ==
    IF raw_runtime.t = "null" THEN Return(default_runtime)
    ELSE IF raw_runtime.t # "dict"
    THEN Exit(Err("'runtime' must be an object", "runtime"))
    ELSE
    LET has_venv == "setup_docs_venv" \in DOMAIN raw_runtime.v
        has_path == "docs_venv_path" \in DOMAIN raw_runtime.v
        has_pkgs == "docs_packages" \in DOMAIN raw_runtime.v
        venv == raw_runtime.v["setup_docs_venv"]
        path == raw_runtime.v["docs_venv_path"]
        pkgs == raw_runtime.v["docs_packages"]
        path_out == normalize_relative_path(path.v, "runtime.docs_venv_path")
        stripped == [i \in 1..Len(pkgs.v) |-> Strip(pkgs.v[i].v)]
    IN IF has_venv /\ venv.t # "bool"
       THEN Exit(Err("runtime.setup_docs_venv must be boolean", "runtime.setup_docs_venv"))
       ELSE IF has_path /\ path.t # "str"
       THEN Exit(Err("runtime.docs_venv_path must be string", "runtime.docs_venv_path"))
       ELSE IF has_path /\ path_out.exited
       THEN path_out
       ELSE IF has_pkgs /\ (pkgs.t # "list"
                            \/ \E i \in 1..Len(pkgs.v) : pkgs.v[i].t # "str")
       THEN Exit(Err("runtime.docs_packages must be a list of strings", "runtime.docs_packages"))
       ELSE Return(
           [setup_docs_venv |->
                IF has_venv THEN venv.v ELSE default_runtime.setup_docs_venv,
            docs_venv_path |->
                IF has_path THEN path_out.value ELSE default_runtime.docs_venv_path,
            docs_packages |->
                IF has_pkgs THEN SelectSeq(stripped, LAMBDA item : item # <<>>)
                ELSE default_runtime.docs_packages])

\* Mutant of normalize_behavior: a value of the wrong type is replaced by
\* the default instead of failing.
normalize_behavior_lenient(raw_behavior) ==
    IF raw_behavior.t # "dict" THEN Return(default_behavior)
    ELSE
    LET has_flag == "add_gitkeep_to_empty_folders" \in DOMAIN raw_behavior.v
        flag == raw_behavior.v["add_gitkeep_to_empty_folders"]
    IN Return(
           [add_gitkeep_to_empty_folders |->
                IF has_flag /\ flag.t = "bool" THEN flag.v
                ELSE default_behavior.add_gitkeep_to_empty_folders])

normalize_behavior(raw_behavior) ==
    IF raw_behavior.t = "null" THEN Return(default_behavior)
    ELSE IF raw_behavior.t # "dict"
    THEN Exit(Err("'behavior' must be an object", "behavior"))
    ELSE
    LET has_flag == "add_gitkeep_to_empty_folders" \in DOMAIN raw_behavior.v
        flag == raw_behavior.v["add_gitkeep_to_empty_folders"]
    IN IF has_flag /\ flag.t # "bool"
       THEN Exit(Err("behavior.add_gitkeep_to_empty_folders must be boolean",
                     "behavior.add_gitkeep_to_empty_folders"))
       ELSE Return(
           [add_gitkeep_to_empty_folders |->
                IF has_flag THEN flag.v
                ELSE default_behavior.add_gitkeep_to_empty_folders])

\* The keys the function sets; other keys of the raw document are carried
\* over unchanged by dict(raw_payload) and are not modelled.
normalize_configuration_payload(raw_payload) ==
    LET id == normalize_config_id(Strip(PyStr(Get(raw_payload, "id", JStr(<<>>)))))
        name0 == Strip(PyStr(Get(raw_payload, "name", JStr(id))))
        name == IF name0 # <<>> THEN name0 ELSE id
        description == Strip(PyStr(Get(raw_payload, "description", JStr(<<>>))))
        folders == normalize_folders(Get(raw_payload, "folders", JList(<<>>)))
        files == normalize_files(Get(raw_payload, "files", JList(<<>>)))
        runtime == normalize_runtime(Get(raw_payload, "runtime", JNull))
        behavior == normalize_behavior(Get(raw_payload, "behavior", JNull))
    IN IF id = <<>> THEN Exit(Err("MissingIdentifier", "id"))
       ELSE IF folders.exited THEN folders
       ELSE IF files.exited THEN files
       ELSE IF runtime.exited THEN runtime
       ELSE IF behavior.exited THEN behavior
       ELSE Return([id |-> id,
                    name |-> name,
                    description |-> description,
                    folders |-> folders.value,
                    files |-> files.value,
                    runtime |-> runtime.value,
                    behavior |-> behavior.value])

----------------------------------------------------------------------------
(* ConfigurationRegistry: pathlib and the file system *)

S_slash == <<"/">>

\* Path segments joined into an absolute path string.
RECURSIVE JoinSegments(_)
JoinSegments(segments) ==
    IF segments = <<>> THEN <<>>
    ELSE S_slash \o Head(segments) \o JoinSegments(Tail(segments))

\* The segments of a path with '.' and empty segments dropped and every
\* '..' resolved against the segments before it (at the root it is dropped).
RECURSIVE ResolveSegments(_, _)
ResolveSegments(todo, done) ==
    IF todo = <<>> THEN done
    ELSE IF Head(todo) = <<>> \/ Head(todo) = <<".">>
    THEN ResolveSegments(Tail(todo), done)
    ELSE IF Head(todo) = DotDot
    THEN ResolveSegments(Tail(todo),
                         IF done = <<>> THEN done
                         ELSE SubSeq(done, 1, Len(done) - 1))
    ELSE ResolveSegments(Tail(todo), Append(done, Head(todo)))

\* str((base / rel_path).resolve()) for an absolute base: an absolute
\* rel_path replaces the base.  Symbolic links are not modelled.
ResolvedPath(base, rel_path) ==
    LET joined == IF StartsWith(rel_path, S_slash) THEN rel_path
                  ELSE base \o S_slash \o rel_path
        segments == ResolveSegments(Split(joined, "/"), <<>>)
    IN IF segments = <<>> THEN S_slash ELSE JoinSegments(segments)

CONFIGURATIONS_DIR == <<"/", "a", "p", "p", "/", "c", "o", "n", "f", "i", "g", "u", "r", "a", "t", "i", "o", "n", "s">>

\* The configuration files on disk: resolved path -> JSON document.
P_owner_a == <<"/", "a", "p", "p", "/", "c", "o", "n", "f", "i", "g", "u", "r", "a", "t", "i", "o", "n", "s", "/", "o", "w", "n", "e", "r", "/", "a", ".", "j", "s", "o", "n">>
P_owner_A == <<"/", "a", "p", "p", "/", "c", "o", "n", "f", "i", "g", "u", "r", "a", "t", "i", "o", "n", "s", "/", "o", "w", "n", "e", "r", "/", "A", ".", "j", "s", "o", "n">>
P_sibling_x == <<"/", "a", "p", "p", "/", "c", "o", "n", "f", "i", "g", "u", "r", "a", "t", "i", "o", "n", "s", "2", "/", "x", ".", "j", "s", "o", "n">>
P_other_x == <<"/", "a", "p", "p", "/", "o", "t", "h", "e", "r", "/", "x", ".", "j", "s", "o", "n">>

P_user_b == <<"/", "a", "p", "p", "/", "c", "o", "n", "f", "i", "g", "u", "r", "a", "t", "i", "o", "n", "s", "/", "u", "s", "e", "r", "_", "g", "e", "n", "e", "r", "a", "t", "e", "d", "/", "b", ".", "j", "s", "o", "n">>

FileSystem ==
    (P_owner_a :> JDict([id |-> JStr(<<"a">>)]))
    @@ (P_owner_A :> JDict([id |-> JStr(<<"A">>), name |-> JStr(<<"B", "i", "g">>)]))
    @@ (P_sibling_x :> JDict([id |-> JStr(<<"x">>)]))
    @@ (P_other_x :> JDict([id |-> JStr(<<"x">>)]))
    @@ (P_user_b :> JDict([id |-> JStr(<<"b">>), name |-> JStr(<<"A", "l", "p", "h", "a">>)]))

\* load_json_file for a path that exists (the files hold valid JSON).
load_json_file(path) == Return(FileSystem[path])

\* The loop of load_configurations_from_registry from entry i on.
RECURSIVE load_loop(_, _, _)
load_loop(entries, i, configs) ==
    IF i > Len(entries) THEN Return(configs)
    ELSE
    LET entry == entries[i]
        config_id == Strip(PyStr(Get(entry, "id", JStr(<<>>))))
        rel_path == Strip(PyStr(Get(entry, "path", JStr(<<>>))))
        scope0 == Strip(PyStr(Get(entry, "scope", JStr(S_owner))))
        scope == IF scope0 # <<>> THEN scope0 ELSE S_owner
        config_path == ResolvedPath(CONFIGURATIONS_DIR, rel_path)
        data == load_json_file(config_path)
        normalized == normalize_configuration_payload(data.value)
    IN IF entry.t # "dict"
       THEN Exit(Err("Index entry must be an object", "index"))
       ELSE IF config_id = <<>> \/ rel_path = <<>>
       THEN Exit(Err("Each index entry requires 'id' and 'path'", "index"))
       ELSE IF scope \notin {S_owner, S_user_generated}
       THEN Exit(Err("Unsupported configuration scope", "scope"))
       ELSE IF ~StartsWith(config_path, CONFIGURATIONS_DIR)
       THEN Exit(Err("PathEscape", rel_path))
       ELSE IF config_path \notin DOMAIN FileSystem
       THEN Exit(Err("Missing configuration file from index", rel_path))
       ELSE IF normalized.exited THEN normalized
       ELSE IF normalized.value.id # config_id
       THEN Exit(Err("IdentifierMismatch", config_id))
       ELSE load_loop(entries, i + 1,
                      Append(configs,
                             [config |-> normalized.value,
                              _scope |-> scope,
                              _path |-> rel_path]))

load_configurations_from_registry(entries) == load_loop(entries, 1, <<>>)

\* Mutant: the index is written anew even when the file exists.
ensure_layout_overwrites(index) ==
    JDict([version |-> JNum(1),
           description |-> JStr(<<"M", "a", "i", "n", " ", "r", "e", "g", "i", "s", "t", "r", "y">>),
           configurations |-> JList(<<>>)])

\* ensure_layout on the index file (Missing when there is no file): a
\* missing index is created with an empty list of configurations.
ensure_layout(index) ==
    IF index.t = "missing"
    THEN JDict([version |-> JNum(1),
                description |-> JStr(<<"M", "a", "i", "n", " ", "r", "e", "g", "i", "s", "t", "r", "y">>),
                configurations |-> JList(<<>>)])
    ELSE index

\* Mutant: an empty list is refused like a value that is no list.
load_registry_refuses_empty(data) ==
    LET entries == Get(data, "configurations", JNull)
    IN IF entries.t # "list" \/ entries.v = <<>>
       THEN Exit(Err("'configurations' must be a list", "index"))
       ELSE Return(entries.v)

\* load_registry on the parsed index document.
load_registry(data) ==
    LET entries == Get(data, "configurations", JNull)
    IN IF entries.t # "list"
       THEN Exit(Err("'configurations' must be a list", "index"))
       ELSE Return(entries.v)

----------------------------------------------------------------------------
(* Registry upsert and the write-back of the index (main) *)

\* Characters in code point order, for Python's string comparison.
CodeOrder ==
    <<" ", "-", ".", "/", "0", "1", "2", "3", "4", "5", "6", "7", "8", "9",
      "A", "B", "C", "D", "E", "F", "G", "H", "I", "J", "K", "L", "M", "N", "O",
      "P", "Q", "R", "S", "T", "U", "V", "W", "X", "Y", "Z", "\\", "_",
      "a", "b", "c", "d", "e", "f", "g", "h", "i", "j", "k", "l", "m", "n", "o",
      "p", "q", "r", "s", "t", "u", "v", "w", "x", "y", "z", "{", "}", "~">>

Code(c) == CHOOSE i \in 1..Len(CodeOrder) : CodeOrder[i] = c

\* a < b for Python strings
RECURSIVE StrLess(_, _)
StrLess(a, b) ==
    IF b = <<>> THEN FALSE
    ELSE IF a = <<>> THEN TRUE
    ELSE IF Head(a) # Head(b) THEN Code(Head(a)) < Code(Head(b))
    ELSE StrLess(Tail(a), Tail(b))

\* The sort key of main, lines 827-830: scope is neither trimmed nor
\* defaulted when blank, the identifier is lower-cased.
IndexSortKey(entry) ==
    [rank |-> IF PyStr(Get(entry, "scope", JStr(S_owner))) = S_owner THEN 0 ELSE 1,
     id |-> Lower(PyStr(Get(entry, "id", JStr(<<>>))))]

KeyLess(k1, k2) ==
    \/ k1.rank < k2.rank
    \/ k1.rank = k2.rank /\ StrLess(k1.id, k2.id)

\* sorted(entries, key=...): stable, so an entry goes behind every entry
\* whose key is not greater.
RECURSIVE InsertSorted(_, _)
InsertSorted(sorted, entry) ==
    IF sorted = <<>> THEN <<entry>>
    ELSE IF KeyLess(IndexSortKey(entry), IndexSortKey(Head(sorted)))
    THEN <<entry>> \o sorted
    ELSE <<Head(sorted)>> \o InsertSorted(Tail(sorted), entry)

RECURSIVE SortedEntries(_)
SortedEntries(entries) ==
    IF entries = <<>> THEN <<>>
    ELSE InsertSorted(SortedEntries(SubSeq(entries, 1, Len(entries) - 1)),
                      entries[Len(entries)])

\* The scope upsert_registry_entry sees in an existing entry (line 771).
ExistingScope(entry) ==
    LET scope == Strip(PyStr(Get(entry, "scope", JStr(S_owner))))
    IN IF scope # <<>> THEN scope ELSE S_owner

\* Mutant of upsert_registry_entry: the owner check is missing.
upsert_registry_entry_no_owner_check(entries, config_id, scope, relative_path, overwrite) ==
    LET matches == {idx \in 1..Len(entries) :
                       Strip(PyStr(Get(entries[idx], "id", JStr(<<>>)))) = config_id}
        payload == JDict([id |-> JStr(config_id), scope |-> JStr(scope),
                          path |-> JStr(relative_path)])
    IN IF matches = {} THEN Return(Append(entries, payload))
       ELSE IF ~overwrite THEN Exit(Err("Cancelled by user", "overwrite"))
       ELSE Return([entries EXCEPT ![CHOOSE idx \in matches :
                                        \A other \in matches : idx <= other] = payload])

\* overwrite is the answer prompt_yes_no gives if the question is asked.
\* The value returned is the entry list after the call.
upsert_registry_entry(entries, config_id, scope, relative_path, overwrite) ==
    LET matches == {idx \in 1..Len(entries) :
                       Strip(PyStr(Get(entries[idx], "id", JStr(<<>>)))) = config_id}
        existing_index == CHOOSE idx \in matches : \A other \in matches : idx <= other
        payload == JDict([id |-> JStr(config_id), scope |-> JStr(scope),
                          path |-> JStr(relative_path)])
    IN IF matches = {} THEN Return(Append(entries, payload))
       ELSE IF ExistingScope(entries[existing_index]) = S_owner
               /\ scope = S_user_generated
       THEN Exit(Err("OwnerConflict", "id"))
       ELSE IF ~overwrite THEN Exit(Err("Cancelled by user", "overwrite"))
       ELSE Return([entries EXCEPT ![existing_index] = payload])

S_json == <<".", "j", "s", "o", "n">>

----------------------------------------------------------------------------
(* Initial state: nothing has been called yet. *)

NotCalled == [exited |-> FALSE, error |-> NoError, value |-> <<>>]

PathIdle ==
    /\ pathPc = "idle"
    /\ pathRaw = <<>>
    /\ pathOut = NotCalled
    /\ pathOut2 = NotCalled

FoldersIdle ==
    /\ fldPc = "idle"
    /\ fldRaw = JNull
    /\ fldOut = NotCalled

RulesIdle ==
    /\ rulesPc = "idle"
    /\ rulesRaw = JNull
    /\ rulesOut = NotCalled

CfgIdle ==
    /\ cfgPc = "idle"
    /\ cfgRaw = JNull
    /\ cfgOut = NotCalled

RegistryIdle ==
    /\ regPc = "idle"
    /\ regIndex = JNull
    /\ regOut = NotCalled

CreatorIdle ==
    /\ crPc = "idle"
    /\ indexFile = <<>>
    /\ crEntries = <<>>
    /\ crId = <<>>
    /\ crError = NoError
    /\ configFiles = {}
    /\ indexExists = FALSE
    /\ crWrites = <<>>

IdentifierIdle ==
    /\ idPc = "idle"
    /\ idRaw = JNull
    /\ idOut = NotCalled

PlaceholderIdle ==
    /\ phPc = "idle"
    /\ phRule = JNull
    /\ phSourceOut = NotCalled
    /\ phTargetOut = NotCalled
    /\ phOut = NotCalled

SetupIdle ==
    /\ setupPc = "idle"
    /\ setupConfig = [components |-> <<>>, create_venv |-> FALSE, use_git |-> FALSE]
    /\ setupStep = 0
    /\ setupDirs = {}
    /\ setupFiles = {}

GenerateIdle ==
    /\ genPc = "idle"
    /\ genRaw = JNull
    /\ genConfig = NotCalled
    /\ genRule = 0
    /\ genProject = {}
    /\ genGenerated = <<>>
    /\ genError = NoError

RequirementsIdle ==
    /\ reqPc = "idle"
    /\ reqData = JNull
    /\ reqKeys = <<>>
    /\ reqOut = [raised |-> FALSE, cleaned |-> <<>>, errors |-> <<>>]

BuildDocsIdle ==
    /\ docPc = "idle"
    /\ docHigh = JNull
    /\ docSoftware = JNull
    /\ docCleanHigh = <<>>
    /\ docCleanSoftware = <<>>
    /\ docErrors = <<>>
    /\ docLinks = [sw |-> <<>>, hl |-> <<>>]
    /\ docDangling = <<>>
    /\ docPages = FALSE

NoCall == [text |-> <<>>, token |-> <<"?">>]

EncodeIdle ==
    /\ encPc = "idle"
    /\ encText = <<>>
    /\ encCompressed = <<>>
    /\ encI = 0
    /\ encChars = <<>>
    /\ encToken = <<>>
    /\ encCalls = 0
    /\ encPrev = NoCall

TranscodeIdle ==
    /\ trPc = "idle"
    /\ trCompressed = <<>>
    /\ trI = 0
    /\ trChars = <<>>
    /\ trToken = <<>>

NoResponse == [kind |-> "none"]

RenderIdle ==
    /\ rdPc = "idle"
    /\ rdText = JNull
    /\ rdUrl = <<>>
    /\ rdRequests = 0
    /\ rdResponse = NoResponse
    /\ rdOut = [kind |-> "none"]

ScriptsIdle ==
    /\ chPc = "idle"
    /\ chUmask = 0
    /\ chStep = 0
    /\ chModes = <<>>

EditorIdle ==
    /\ edPc = "idle"
    /\ edFiles = <<>>
    /\ edOps = 0

Init ==
    PathIdle /\ FoldersIdle /\ RulesIdle /\ CfgIdle /\ RegistryIdle /\ CreatorIdle
        /\ IdentifierIdle
        /\ PlaceholderIdle
        /\ SetupIdle
        /\ GenerateIdle
        /\ RequirementsIdle
        /\ BuildDocsIdle
        /\ EncodeIdle
        /\ TranscodeIdle
        /\ RenderIdle
        /\ ScriptsIdle
        /\ EditorIdle

----------------------------------------------------------------------------
(* Specification of PathSafety: a caller normalizes a raw path and then    *)
(* normalizes the returned path once more.                                 *)

PathChars == {"a", " ", "/", "\\", ".", "~"}
PathInputs == SeqsUpTo(PathChars, MaxPathLen)

NormalizePath ==
    /\ pathPc = "idle"
    /\ \E raw \in PathInputs :
        /\ pathPc' = "normalized"
        /\ pathRaw' = raw
        /\ pathOut' = normalize_relative_path(raw, "Folder path")
        /\ pathOut2' = NotCalled
    /\ UNCHANGED <<fldVars, rulesVars, cfgVars, regVars, crVars, idVars, phVars, setupVars, genVars, reqVars, docVars, encVars, trVars, rdVars, chVars, edVars>>

NormalizePathAgain ==
    /\ pathPc = "normalized"
    /\ ~pathOut.exited
    /\ pathPc' = "renormalized"
    /\ pathOut2' = normalize_relative_path(pathOut.value, "Folder path")
    /\ UNCHANGED <<pathRaw, pathOut>>
    /\ UNCHANGED <<fldVars, rulesVars, cfgVars, regVars, crVars, idVars, phVars, setupVars, genVars, reqVars, docVars, encVars, trVars, rdVars, chVars, edVars>>

NextPath == NormalizePath \/ NormalizePathAgain
SpecPath == Init /\ [][NextPath]_vars

\* The raw string, trimmed and with backslashes converted, is absolute,
\* home-relative or holds a '..' segment.
UnsafeRaw(raw) ==
    LET cleaned == Replace(Strip(raw), "\\", "/")
        segments == Split(cleaned, "/")
    IN \/ StartsWith(cleaned, <<"/">>)
       \/ StartsWith(cleaned, <<"~">>)
       \/ \E i \in 1..Len(segments) : segments[i] = DotDot

\* C1: every raw path that is absolute, starts with '~' or contains a '..'
\* segment (after trimming and backslash conversion) is rejected with
\* InvalidPath and no path is returned.
C1_UnsafeRejected ==
    (pathPc # "idle" /\ UnsafeRaw(pathRaw)) =>
        (pathOut.exited /\ pathOut.error.kind \in InvalidPathKinds)

\* C2: for every accepted relative path without '..' segments, normalizing
\* the returned path a second time succeeds and returns the same path.
C2_Idempotent ==
    (pathPc = "renormalized" /\ ~UnsafeRaw(pathRaw)) =>
        (~pathOut2.exited /\ pathOut2.value = pathOut.value)

----------------------------------------------------------------------------
(* Specification of folder normalization: normalize_folders is called on   *)
(* a 'folders' value of a configuration document.                          *)

FolderItems ==
    { JStr(<<"a">>), JStr(<<"a", "/">>), JStr(<<" ", "a">>),
      JStr(<<"b">>), JStr(<<"\\", "b">>), JStr(<<"a", "/", "b">>),
      JStr(<<".", ".">>), JStr(<<>>), JNum(1) }

FolderInputs ==
    {JList(items) : items \in SeqsUpTo(FolderItems, MaxFolders)}
        \cup {JNull, JStr(<<"a">>)}

NormalizeFolders ==
    /\ fldPc = "idle"
    /\ \E raw \in FolderInputs :
        /\ fldPc' = "normalized"
        /\ fldRaw' = raw
        /\ fldOut' = normalize_folders(raw)
    /\ UNCHANGED <<pathVars, rulesVars, cfgVars, regVars, crVars, idVars, phVars, setupVars, genVars, reqVars, docVars, encVars, trVars, rdVars, chVars, edVars>>

NextFolders == NormalizeFolders
SpecFolders == Init /\ [][NextFolders]_vars

\* The raw value is a list of strings, each one a valid folder path.
ValidFolderList(raw) ==
    /\ raw.t = "list"
    /\ \A i \in 1..Len(raw.v) :
        /\ raw.v[i].t = "str"
        /\ ~normalize_relative_path(raw.v[i].v, "Folder path").exited

\* The normalized path of item i of a valid folder list.
FolderPathOf(raw, i) == normalize_relative_path(raw.v[i].v, "Folder path").value

\* Position of the first item of the list whose normalized path is p.
FirstOccurrence(raw, p) ==
    CHOOSE i \in 1..Len(raw.v) :
        /\ FolderPathOf(raw, i) = p
        /\ \A j \in 1..(i - 1) : FolderPathOf(raw, j) # p

\* C10: for every list of valid folder strings normalize_folders returns,
\* without error, each normalized path exactly once, ordered by first
\* occurrence in the input, and nothing else.
C10_FoldersCollapsed ==
    (fldPc = "normalized" /\ ValidFolderList(fldRaw)) =>
        /\ ~fldOut.exited
        /\ LET out == fldOut.value
           IN /\ \A i, j \in 1..Len(out) : i # j => out[i] # out[j]
              /\ Range(out) = {FolderPathOf(fldRaw, i) : i \in 1..Len(fldRaw.v)}
              /\ \A i, j \in 1..Len(out) :
                    i < j => FirstOccurrence(fldRaw, out[i])
                                 < FirstOccurrence(fldRaw, out[j])

\* A valid list in which a later item repeats the normalized path of an
\* earlier one, after another path came in between, was normalized.
C10_DuplicateSeen ==
    /\ fldPc = "normalized"
    /\ ValidFolderList(fldRaw)
    /\ ~fldOut.exited
    /\ Len(fldOut.value) >= 2
    /\ Len(fldOut.value) < Len(fldRaw.v)
    /\ FolderPathOf(fldRaw, Len(fldRaw.v)) = FolderPathOf(fldRaw, 1)

----------------------------------------------------------------------------
(* Specification of file-rule normalization: normalize_files is called on  *)
(* a 'files' value of a configuration document.                            *)

RuleIdValues ==
    { JStr(<<>>), JStr(<<" ">>), JStr(<<"r">>), JStr(<<" ", "r">>),
      JStr(<<"r", "u", "l", "e", "_", "2">>) }

RuleSourceValues ==
    { JStr(<<"s">>), JStr(<<" ">>), JStr(<<"{", "x", "}">>) }

RuleInputs ==
    {JDict([id |-> i, source |-> s, target |-> JStr(<<"t">>)]) :
        i \in RuleIdValues, s \in RuleSourceValues}
    \cup {JDict([source |-> s, target |-> JStr(<<"t">>)]) : s \in RuleSourceValues}
    \cup { JStr(<<"r">>),
           JDict([id |-> JStr(<<"r">>), source |-> JStr(<<"s">>),
                  target |-> JStr(<<"t">>), enabled |-> JNum(1)]) }

RulesInputs ==
    {JList(items) : items \in SeqsUpTo(RuleInputs, MaxRules)}
        \cup {JNull, JStr(<<"r">>)}

NormalizeFiles ==
    /\ rulesPc = "idle"
    /\ \E raw \in RulesInputs :
        /\ rulesPc' = "normalized"
        /\ rulesRaw' = raw
        /\ rulesOut' = normalize_files(raw)
    /\ UNCHANGED <<pathVars, fldVars, cfgVars, regVars, crVars, idVars, phVars, setupVars, genVars, reqVars, docVars, encVars, trVars, rdVars, chVars, edVars>>

NextRules == NormalizeFiles
SpecRules == Init /\ [][NextRules]_vars

\* The field rules of one file rule, its identifier aside: a mapping with
\* non-blank string source and target that use whitelisted placeholders
\* only, boolean flags if present, and an allowed post_process.
RuleFieldsOk(rule) ==
    /\ rule.t = "dict"
    /\ \A key \in {"source", "target"} :
        /\ key \in DOMAIN rule.v
        /\ rule.v[key].t = "str"
        /\ Strip(rule.v[key].v) # <<>>
        /\ \A name \in Range(FindPlaceholders(rule.v[key].v)) :
              name \in ALLOWED_PLACEHOLDERS
    /\ \A key \in {"enabled", "executable"} :
        key \in DOMAIN rule.v => rule.v[key].t = "bool"
    /\ "post_process" \in DOMAIN rule.v =>
        \/ Strip(PyStr(rule.v["post_process"])) = <<>>
        \/ Strip(PyStr(rule.v["post_process"])) \in ALLOWED_POST_PROCESS

\* The identifier a rule at one-based position pos ends up with: its own
\* trimmed identifier, or rule_<pos> when that is missing or blank.
AssignedId(rule, pos) ==
    LET own == IF "id" \in DOMAIN rule.v THEN Strip(PyStr(rule.v["id"])) ELSE <<>>
    IN IF own = <<>> THEN S_rule_ \o Decimal(pos) ELSE own

\* Two rules of the list end up with the same identifier.
SharedRuleId(items) ==
    \E i, j \in 1..Len(items) :
        i < j /\ AssignedId(items[i], i) = AssignedId(items[j], j)

\* C9 as stated: for every list of rule mappings, normalization fails with
\* DuplicateRuleId if and only if two rules of the list end up with the
\* same identifier.
C9_DuplicateIff ==
    (/\ rulesPc = "normalized"
     /\ rulesRaw.t = "list"
     /\ \A i \in 1..Len(rulesRaw.v) : rulesRaw.v[i].t = "dict") =>
        ((rulesOut.exited /\ rulesOut.error.kind = "DuplicateRuleId")
            <=> SharedRuleId(rulesRaw.v))

\* C9 (amended): a rule at zero-based position i with a missing or blank
\* identifier receives rule_<i+1>; DuplicateRuleId is raised only when two
\* rules end up with the same identifier; a list whose rules are otherwise
\* valid fails with DuplicateRuleId exactly when two rules end up with the
\* same identifier and is otherwise returned in declared order with
\* pairwise distinct identifiers.
C9_RuleIds ==
    (rulesPc = "normalized" /\ rulesRaw.t = "list") =>
        LET items == rulesRaw.v
            out == rulesOut.value
        IN /\ (rulesOut.exited /\ rulesOut.error.kind = "DuplicateRuleId") =>
                  SharedRuleId(items)
           /\ (\A i \in 1..Len(items) : RuleFieldsOk(items[i])) =>
                 /\ (rulesOut.exited /\ rulesOut.error.kind = "DuplicateRuleId")
                        <=> SharedRuleId(items)
                 /\ ~SharedRuleId(items) =>
                       /\ ~rulesOut.exited
                       /\ Len(out) = Len(items)
                       /\ \A i \in 1..Len(out) :
                             /\ out[i].id = AssignedId(items[i], i)
                             /\ out[i].source = Strip(items[i].v["source"].v)
                       /\ \A i, j \in 1..Len(out) : i # j => out[i].id # out[j].id

\* A list was returned in which a rule without identifier, not in first
\* position, received its positional identifier.
C9_AutoAssigned ==
    /\ rulesPc = "normalized"
    /\ rulesRaw.t = "list"
    /\ ~rulesOut.exited
    /\ Len(rulesOut.value) >= 2
    /\ "id" \notin DOMAIN rulesRaw.v[2].v
    /\ rulesOut.value[2].id = <<"r", "u", "l", "e", "_", "2">>

----------------------------------------------------------------------------
(* Specification of ConfigurationValidator: normalize_configuration_payload *)
(* is called on a raw configuration document.                              *)

\* Marks a key that the raw document does not hold.
Missing == [t |-> "missing"]

\* The JSON object with the keys of f whose value is not Missing.
MkDict(f) == JDict([key \in {k \in DOMAIN f : f[k].t # "missing"} |-> f[key]])

CfgIdValues == {Missing, JStr(<<"A", " ", "b">>), JStr(<<"-", "_">>)}

CfgFolderItems ==
    {JStr(<<"a">>), JStr(<<"a", "/">>), JStr(<<".", ".">>), JNum(1)}

CfgFolderValues ==
    {JList(items) : items \in SeqsUpTo(CfgFolderItems, MaxCfgFolders)}
        \cup {Missing, JStr(<<"a">>)}

CfgRuleItems ==
    { JDict([source |-> JStr(<<"s">>), target |-> JStr(<<"t">>)]),
      JDict([id |-> JStr(<<"r">>), source |-> JStr(<<".", ".", "/", "s">>),
             target |-> JStr(<<"/", "t">>), executable |-> JBool(TRUE),
             post_process |-> JStr(<<" ">>)]),
      JDict([id |-> JStr(<<"r">>), source |-> JStr(<<"{", "l", "a", "n", "g", "}">>),
             target |-> JStr(<<"{", "x", "}">>)]),
      JDict([id |-> JStr(<<"q">>), source |-> JStr(<<"s">>),
             target |-> JStr(<<"t">>), enabled |-> JNull]) }

CfgFilesValues ==
    {JList(items) : items \in SeqsUpTo(CfgRuleItems, MaxCfgRules)}
        \cup {Missing, JNull}

CfgRuntimeValues ==
    { Missing,
      JStr(<<"r">>),
      JDict([unknown |-> JNum(1)]),
      JDict([setup_docs_venv |-> JStr(<<"n", "o">>)]),
      JDict([setup_docs_venv |-> JBool(FALSE),
             docs_venv_path |-> JStr(<<" ", "v", "/">>),
             docs_packages |-> JList(<<JStr(<<" ", "p">>), JStr(<<" ">>)>>)]),
      JDict([docs_venv_path |-> JStr(<<"~", "v">>)]),
      JDict([docs_venv_path |-> JNum(1)]),
      JDict([docs_packages |-> JList(<<JStr(<<"p">>), JNum(1)>>)]) }

CfgBehaviorValues ==
    { Missing,
      JList(<<>>),
      JDict([add_gitkeep_to_empty_folders |-> JBool(FALSE)]),
      JDict([add_gitkeep_to_empty_folders |-> JStr(<<"n", "o">>)]) }

CfgInputs ==
    {MkDict([id |-> i, folders |-> fo, files |-> fi, runtime |-> ru, behavior |-> be]) :
        i \in CfgIdValues, fo \in CfgFolderValues, fi \in CfgFilesValues,
        ru \in CfgRuntimeValues, be \in CfgBehaviorValues}

NormalizeConfiguration ==
    /\ cfgPc = "idle"
    /\ \E raw \in CfgInputs :
        /\ cfgPc' = "normalized"
        /\ cfgRaw' = raw
        /\ cfgOut' = normalize_configuration_payload(raw)
    /\ UNCHANGED <<pathVars, fldVars, rulesVars, regVars, crVars, idVars, phVars, setupVars, genVars, reqVars, docVars, encVars, trVars, rdVars, chVars, edVars>>

NextConfig == NormalizeConfiguration
SpecConfig == Init /\ [][NextConfig]_vars

\* C3: every file rule of an accepted configuration has a source and a
\* target that are not absolute, do not start with '~' and hold no '..'
\* segment.
C3_RuleTemplatesSafe ==
    (cfgPc = "normalized" /\ ~cfgOut.exited) =>
        \A i \in 1..Len(cfgOut.value.files) :
            /\ ~UnsafeRaw(cfgOut.value.files[i].source)
            /\ ~UnsafeRaw(cfgOut.value.files[i].target)

AlphaNumeric == Lowercase \cup Uppercase \cup Digits

\* The field rules of the raw document, field by field, in the order of
\* normalization: 1 id, 2 folders, 3 files, 4 runtime, 5 behavior.
FieldOk(doc, k) ==
    CASE k = 1 ->
            \E c \in Range(PyStr(Get(doc, "id", JStr(<<>>)))) : c \in AlphaNumeric
      [] k = 2 -> ValidFolderList(Get(doc, "folders", JList(<<>>)))
      [] k = 3 ->
            LET files == Get(doc, "files", JList(<<>>))
            IN /\ files.t = "list"
               /\ \A i \in 1..Len(files.v) : RuleFieldsOk(files.v[i])
               /\ ~SharedRuleId(files.v)
      [] k = 4 ->
            LET runtime == Get(doc, "runtime", JNull)
            IN \/ runtime.t = "null"
               \/ /\ runtime.t = "dict"
                  /\ "setup_docs_venv" \in DOMAIN runtime.v =>
                        runtime.v["setup_docs_venv"].t = "bool"
                  /\ "docs_venv_path" \in DOMAIN runtime.v =>
                        /\ runtime.v["docs_venv_path"].t = "str"
                        /\ ~normalize_relative_path(
                               runtime.v["docs_venv_path"].v, "").exited
                  /\ "docs_packages" \in DOMAIN runtime.v =>
                        /\ runtime.v["docs_packages"].t = "list"
                        /\ \A i \in 1..Len(runtime.v["docs_packages"].v) :
                              runtime.v["docs_packages"].v[i].t = "str"
      [] k = 5 ->
            LET behavior == Get(doc, "behavior", JNull)
            IN \/ behavior.t = "null"
               \/ /\ behavior.t = "dict"
                  /\ "add_gitkeep_to_empty_folders" \in DOMAIN behavior.v =>
                        behavior.v["add_gitkeep_to_empty_folders"].t = "bool"

\* The field an error message names.
ErrorField(label) ==
    CASE label = "id" -> 1
      [] label \in {"folders", "Folder path"} -> 2
      [] label \in {"files", "source", "target", "enabled", "executable",
                    "post_process"} -> 3
      [] label \in {"runtime", "runtime.setup_docs_venv", "runtime.docs_venv_path",
                    "runtime.docs_packages"} -> 4
      [] label \in {"behavior", "behavior.add_gitkeep_to_empty_folders"} -> 5
      [] OTHER -> 0

\* A returned configuration satisfies the field rules.
ConfigurationOk(c) ==
    /\ c.id # <<>>
    /\ Range(c.id) \subseteq Lowercase \cup Digits \cup {"_"}
    /\ \A i \in 1..Len(c.folders) :
        /\ ~normalize_relative_path(c.folders[i], "").exited
        /\ \A j \in 1..Len(c.folders) : i # j => c.folders[i] # c.folders[j]
    /\ \A i \in 1..Len(c.files) :
        /\ c.files[i].id # <<>>
        /\ Strip(c.files[i].source) # <<>>
        /\ Strip(c.files[i].target) # <<>>
        /\ Range(FindPlaceholders(c.files[i].source)) \subseteq ALLOWED_PLACEHOLDERS
        /\ Range(FindPlaceholders(c.files[i].target)) \subseteq ALLOWED_PLACEHOLDERS
        /\ c.files[i].enabled \in BOOLEAN
        /\ c.files[i].executable \in BOOLEAN
        /\ c.files[i].post_process \in ALLOWED_POST_PROCESS
        /\ \A j \in 1..Len(c.files) : i # j => c.files[i].id # c.files[j].id
    /\ c.runtime.setup_docs_venv \in BOOLEAN
    /\ ~normalize_relative_path(c.runtime.docs_venv_path, "").exited
    /\ \A i \in 1..Len(c.runtime.docs_packages) :
        Strip(c.runtime.docs_packages[i]) # <<>>
    /\ c.behavior.add_gitkeep_to_empty_folders \in BOOLEAN

\* C8: normalization is fail-fast.  If a field of the raw document violates
\* its rule the call ends in a single error, which names the first violating
\* field in normalization order, and returns no configuration; otherwise it
\* returns a configuration that satisfies every field rule.
C8_FailFast ==
    cfgPc = "normalized" =>
        LET bad == {k \in 1..5 : ~FieldOk(cfgRaw, k)}
        IN IF bad # {}
           THEN /\ cfgOut.exited
                /\ cfgOut.value = NoValue
                /\ cfgOut.error.kind # "none"
                /\ ErrorField(cfgOut.error.label) \in bad
                /\ \A k \in bad : ErrorField(cfgOut.error.label) <= k
           ELSE /\ ~cfgOut.exited
                /\ cfgOut.error = NoError
                /\ ConfigurationOk(cfgOut.value)

\* A document with two violating fields was rejected with the error of the
\* earlier one.
C8_TwoViolations ==
    /\ cfgPc = "normalized"
    /\ ~FieldOk(cfgRaw, 3)
    /\ ~FieldOk(cfgRaw, 5)
    /\ FieldOk(cfgRaw, 1) /\ FieldOk(cfgRaw, 2)
    /\ cfgOut.exited
    /\ ErrorField(cfgOut.error.label) = 3

----------------------------------------------------------------------------
(* Specification of ConfigurationRegistry.load: the index document is read *)
(* and every configuration it references is loaded (main, lines 787-788).  *)

EntryIdValues == {Missing, JStr(<<"a">>), JStr(<<"A">>), JStr(<<"x">>)}

EntryPathValues ==
    { JStr(<<"o", "w", "n", "e", "r", "/", "a", ".", "j", "s", "o", "n">>), JStr(<<"o", "w", "n", "e", "r", "/", "A", ".", "j", "s", "o", "n">>),
      JStr(<<".", ".", "/", "c", "o", "n", "f", "i", "g", "u", "r", "a", "t", "i", "o", "n", "s", "2", "/", "x", ".", "j", "s", "o", "n">>), JStr(<<".", ".", "/", "o", "t", "h", "e", "r", "/", "x", ".", "j", "s", "o", "n">>),
      JStr(<<"o", "w", "n", "e", "r", "/", "n", "o", "n", "e", ".", "j", "s", "o", "n">>) }

EntryScopeValues == {Missing, JStr(S_user_generated), JStr(<<"s", "h", "a", "r", "e", "d">>)}

\* The entry of a configuration the creator registered.
UserEntry ==
    MkDict([id |-> JStr(<<"b">>),
            path |-> JStr(<<"u", "s", "e", "r", "_", "g", "e", "n", "e", "r", "a", "t", "e", "d", "/", "b", ".", "j", "s", "o", "n">>),
            scope |-> JStr(S_user_generated)])

\* Entries without a scope for every identifier and path, and entries with
\* each scope for the first owner file.
EntryInputs ==
    {MkDict([id |-> i, path |-> p, scope |-> Missing]) :
        i \in EntryIdValues, p \in EntryPathValues}
    \cup {MkDict([id |-> i, path |-> JStr(<<"o", "w", "n", "e", "r", "/", "a", ".", "j", "s", "o", "n">>), scope |-> s]) :
             i \in EntryIdValues, s \in EntryScopeValues}
    \cup {UserEntry}

IndexInputs ==
    {JDict([version |-> JNum(1), configurations |-> JList(entries)]) :
        entries \in SeqsUpTo(EntryInputs, MaxEntries)}
    \cup {JDict([version |-> JNum(1)]),
          JDict([version |-> JNum(1), configurations |-> JNull]),
          JDict([version |-> JNum(1), configurations |-> JDict(<<>>)])}

LoadRegistry ==
    /\ regPc = "idle"
    /\ \E index \in IndexInputs \cup {Missing} :
       LET data == ensure_layout(index) IN
        /\ regPc' = "loaded"
        /\ regIndex' = data
        /\ regOut' = LET entries == load_registry(data)
                     IN IF entries.exited THEN entries
                        ELSE load_configurations_from_registry(entries.value)
    /\ UNCHANGED <<pathVars, fldVars, rulesVars, cfgVars, crVars, idVars, phVars, setupVars, genVars, reqVars, docVars, encVars, trVars, rdVars, chVars, edVars>>

NextRegistry == LoadRegistry
SpecRegistry == Init /\ [][NextRegistry]_vars

\* Path p is the directory root or lies below it, segment by segment.
IsWithin(p, root) ==
    LET ps == ResolveSegments(Split(p, "/"), <<>>)
        rs == ResolveSegments(Split(root, "/"), <<>>)
    IN Len(rs) <= Len(ps) /\ SubSeq(ps, 1, Len(rs)) = rs

\* C4: load returns no configuration whose file lies outside the
\* configurations root; an entry whose resolved path is neither the root
\* nor a descendant of it is rejected.
C4_NoPathEscape ==
    (regPc = "loaded" /\ ~regOut.exited) =>
        \A i \in 1..Len(regOut.value) :
            IsWithin(ResolvedPath(CONFIGURATIONS_DIR, regOut.value[i]._path),
                     CONFIGURATIONS_DIR)

\* C6: a list returned by load has pairwise distinct identifiers (an index
\* in which two entries share an identifier is rejected).
C6_DistinctIdentifiers ==
    (/\ regPc = "loaded"
     /\ ~regOut.exited
     /\ \A i \in 1..Len(regOut.value) :
           IsWithin(ResolvedPath(CONFIGURATIONS_DIR, regOut.value[i]._path),
                    CONFIGURATIONS_DIR)) =>
        \A i, j \in 1..Len(regOut.value) :
            i # j => regOut.value[i].config.id # regOut.value[j].config.id

\* The identifier string an entry carries and the one its file carries.
EntryIdString(entry) == Strip(PyStr(Get(entry, "id", JStr(<<>>))))
FileIdString(entry) ==
    PyStr(Get(FileSystem[ResolvedPath(CONFIGURATIONS_DIR,
                                      Strip(PyStr(Get(entry, "path", JStr(<<>>)))))],
              "id", JStr(<<>>)))

\* C7: an entry is accepted only when its file's identifier equals its own,
\* and an entry whose file carries the same identifier string never fails
\* with IdentifierMismatch.
C7_IdentifierMatch ==
    (regPc = "loaded" /\ "configurations" \in DOMAIN regIndex.v
        /\ regIndex.v["configurations"].t = "list") =>
        LET entries == regIndex.v["configurations"].v
        IN /\ ~regOut.exited =>
                \A i \in 1..Len(entries) :
                    regOut.value[i].config.id = EntryIdString(entries[i])
           /\ (regOut.exited /\ regOut.error.kind = "IdentifierMismatch") =>
                \E i \in 1..Len(entries) :
                    /\ EntryIdString(entries[i]) = regOut.error.label
                    /\ ResolvedPath(CONFIGURATIONS_DIR,
                                    Strip(PyStr(Get(entries[i], "path", JStr(<<>>)))))
                           \in DOMAIN FileSystem
                    /\ FileIdString(entries[i]) # EntryIdString(entries[i])

----------------------------------------------------------------------------
(* Specification of the configuration creator (main): each run loads the   *)
(* index, asks for an identifier, normalizes the payload, upserts the      *)
(* registry entry with scope user_generated, writes the configuration file *)
(* and writes the sorted index back.  Runs follow one another.             *)

\* Entries an index on disk may hold before the first run.
StoredEntry(id, scope) ==
    MkDict([id |-> JStr(id),
            scope |-> scope,
            path |-> JStr((IF scope.t = "str" /\ scope.v = S_user_generated
                           THEN S_user_generated ELSE S_owner)
                          \o S_slash \o id \o S_json)])

StoredEntries ==
    {StoredEntry(id, scope) :
        id \in {<<"a">>, <<"b">>},
        scope \in {Missing, JStr(S_owner), JStr(S_user_generated)}}

CreatorRawIds == {<<"a">>, <<"B">>, <<"c">>, <<"-">>}

\* INDEX_FILE, relative to the configurations directory
INDEX_FILE == <<"i", "n", "d", "e", "x", ".", "j", "s", "o", "n">>

\* The index document whose 'configurations' are the given entries.
IndexDocument(entries) ==
    JDict([version |-> JNum(1),
           description |-> JStr(<<"M", "a", "i", "n", " ", "r", "e", "g", "i", "s", "t", "r", "y">>),
           configurations |-> JList(entries)])

\* write_json_file(path, data), added to the writes of the run; 'exists'
\* tells whether the file was there before the call.
write_json_file(writes, path, exists, data) ==
    Append(writes, [file |-> path, created |-> ~exists, content |-> data])

InitCreator ==
    /\ PathIdle /\ FoldersIdle /\ RulesIdle /\ CfgIdle /\ RegistryIdle /\ IdentifierIdle /\ PlaceholderIdle /\ SetupIdle /\ GenerateIdle /\ RequirementsIdle /\ BuildDocsIdle /\ EncodeIdle /\ TranscodeIdle /\ RenderIdle /\ ScriptsIdle /\ EditorIdle
    /\ crPc = "idle"
    /\ indexFile \in SeqsUpTo(StoredEntries, MaxIndex)
    /\ crEntries = <<>>
    /\ crId = <<>>
    /\ crError = NoError
    /\ configFiles = {}
    /\ indexExists \in {exists \in BOOLEAN : exists \/ indexFile = <<>>}
    /\ crWrites = <<>>

\* main, lines 786-788: a new run makes sure the index file exists
\* (ensure_layout writes an empty one when it is missing) and reads it.
CreatorLoad ==
    /\ crPc \in {"idle", "done", "exited"}
    /\ LET found == IF indexExists THEN IndexDocument(indexFile) ELSE Missing
           data == ensure_layout(found)
       IN /\ crWrites' = IF data # found
                         THEN write_json_file(<<>>, INDEX_FILE, indexExists,
                                              data.v["configurations"].v)
                         ELSE <<>>
          /\ indexFile' = data.v["configurations"].v
          /\ crEntries' = load_registry(data).value
    /\ indexExists' = TRUE
    /\ crPc' = "loaded"
    /\ crId' = <<>>
    /\ crError' = NoError
    /\ UNCHANGED configFiles
    /\ UNCHANGED <<pathVars, fldVars, rulesVars, cfgVars, regVars, idVars, phVars, setupVars, genVars, reqVars, docVars, encVars, trVars, rdVars, chVars, edVars>>

\* main, lines 796-815: prompt_metadata and the final normalization; only
\* the identifier of the payload is modelled.
CreatorPrepare ==
    /\ crPc = "loaded"
    /\ \E raw_id \in CreatorRawIds :
        LET config_id == normalize_config_id(Strip(raw_id))
            payload == normalize_configuration_payload(
                           JDict([id |-> JStr(config_id)]))
        IN IF config_id = <<>>
           THEN /\ crPc' = "exited"
                /\ crError' = Err("MissingIdentifier", "id")
                /\ crId' = <<>>
           ELSE IF payload.exited
           THEN /\ crPc' = "exited"
                /\ crError' = payload.error
                /\ crId' = <<>>
           ELSE /\ crPc' = "prepared"
                /\ crError' = NoError
                /\ crId' = payload.value.id
    /\ UNCHANGED <<indexFile, crEntries, configFiles, indexExists, crWrites>>
    /\ UNCHANGED <<pathVars, fldVars, rulesVars, cfgVars, regVars, idVars, phVars, setupVars, genVars, reqVars, docVars, encVars, trVars, rdVars, chVars, edVars>>

\* main, lines 817-822
CreatorUpsert ==
    /\ crPc = "prepared"
    /\ \E overwrite \in BOOLEAN :
        LET relative_path == S_user_generated \o S_slash \o crId \o S_json
            out == upsert_registry_entry(crEntries, crId, S_user_generated,
                                         relative_path, overwrite)
        IN IF out.exited
           THEN /\ crPc' = "exited"
                /\ crError' = out.error
                /\ crEntries' = crEntries
           ELSE /\ crPc' = "upserted"
                /\ crError' = NoError
                /\ crEntries' = out.value
    /\ UNCHANGED <<indexFile, crId, configFiles, indexExists, crWrites>>
    /\ UNCHANGED <<pathVars, fldVars, rulesVars, cfgVars, regVars, idVars, phVars, setupVars, genVars, reqVars, docVars, encVars, trVars, rdVars, chVars, edVars>>

\* main, line 823
CreatorWriteConfig ==
    /\ crPc = "upserted"
    /\ crPc' = "config_written"
    /\ LET output_path == S_user_generated \o S_slash \o crId \o S_json
       IN /\ configFiles' = configFiles \cup {output_path}
          /\ crWrites' = write_json_file(crWrites, output_path,
                                         output_path \in configFiles, crId)
    /\ UNCHANGED <<indexFile, crEntries, crId, crError, indexExists>>
    /\ UNCHANGED <<pathVars, fldVars, rulesVars, cfgVars, regVars, idVars, phVars, setupVars, genVars, reqVars, docVars, encVars, trVars, rdVars, chVars, edVars>>

\* main, lines 825-832
CreatorWriteIndex ==
    /\ crPc = "config_written"
    /\ crPc' = "done"
    /\ indexFile' = SortedEntries(crEntries)
    /\ crWrites' = write_json_file(crWrites, INDEX_FILE, indexExists,
                                   SortedEntries(crEntries))
    /\ UNCHANGED <<crEntries, crId, crError, configFiles, indexExists>>
    /\ UNCHANGED <<pathVars, fldVars, rulesVars, cfgVars, regVars, idVars, phVars, setupVars, genVars, reqVars, docVars, encVars, trVars, rdVars, chVars, edVars>>

NextCreator ==
    \/ CreatorLoad
    \/ CreatorPrepare
    \/ CreatorUpsert
    \/ CreatorWriteConfig
    \/ CreatorWriteIndex

SpecCreator == InitCreator /\ [][NextCreator]_vars

\* The owner entries of an entry list, in list order.
OwnerEntries(entries) ==
    SelectSeq(entries, LAMBDA entry : ExistingScope(entry) = S_owner)

UniqueIds(entries) ==
    \A i, j \in 1..Len(entries) :
        i # j => Strip(PyStr(Get(entries[i], "id", JStr(<<>>))))
                     # Strip(PyStr(Get(entries[j], "id", JStr(<<>>))))

\* C5: registering with scope user_generated never changes an owner entry,
\* neither in the index on disk nor in the list in memory; when the
\* identifiers are unique and the identifier to register belongs to an owner
\* entry the call fails with OwnerConflict, whatever the confirmation answer,
\* and leaves the entry list unchanged.
C5_OwnerImmutable ==
    [][ /\ Range(OwnerEntries(indexFile')) = Range(OwnerEntries(indexFile))
        /\ crPc' # "idle" =>
              Range(OwnerEntries(crEntries')) = Range(OwnerEntries(indexFile'))
        /\ (/\ crPc = "prepared"
            /\ crPc' # "prepared"
            /\ UniqueIds(crEntries)
            /\ \E i \in 1..Len(crEntries) :
                  /\ ExistingScope(crEntries[i]) = S_owner
                  /\ Strip(PyStr(Get(crEntries[i], "id", JStr(<<>>)))) = crId) =>
              /\ crPc' = "exited"
              /\ crError'.kind = "OwnerConflict"
              /\ crEntries' = crEntries
              /\ indexFile' = indexFile
      ]_vars

\* A run met an owner entry with its identifier and ended in OwnerConflict
\* while an earlier run had registered a user-generated configuration.
C5_OwnerConflictSeen ==
    /\ crPc = "exited"
    /\ crError.kind = "OwnerConflict"
    /\ OwnerEntries(indexFile) # <<>>
    /\ Len(OwnerEntries(indexFile)) < Len(indexFile)
    /\ configFiles # {}

----------------------------------------------------------------------------
(* Specification of identifier normalization: a configuration document     *)
(* that carries only an 'id' is normalized.                                *)

IdChars == {"a", "B", "1", "_", "-", " ", "!"}

IdValues ==
    {Missing, JNull, JNum(1)} \cup {JStr(s) : s \in SeqsUpTo(IdChars, MaxIdLen)}

IdInputs == {MkDict([id |-> v]) : v \in IdValues}

NormalizeIdentifier ==
    /\ idPc = "idle"
    /\ \E raw \in IdInputs :
        /\ idPc' = "normalized"
        /\ idRaw' = raw
        /\ idOut' = normalize_configuration_payload(raw)
    /\ UNCHANGED <<pathVars, fldVars, rulesVars, cfgVars, regVars, crVars, phVars, setupVars, genVars, reqVars, docVars, encVars, trVars, rdVars, chVars, edVars>>

NextIdentifier == NormalizeIdentifier
SpecIdentifier == Init /\ [][NextIdentifier]_vars

\* The identifier string of the document, as str(payload.get("id", "")).
IdString(doc) == PyStr(Get(doc, "id", JStr(<<>>)))

\* The words of s: the maximal runs of letters and digits between the
\* separators space, hyphen and underscore, every other character dropped.
IdWords(s) ==
    LET kept == SelectSeq(Lower(s), LAMBDA c : c \in Lowercase \cup Digits \cup {"_", "-", " "})
        parts == Split(Replace(Replace(kept, "-", "_"), " ", "_"), "_")
    IN SelectSeq(parts, LAMBDA w : w # <<>>)

RECURSIVE JoinWords(_)
JoinWords(words) ==
    IF words = <<>> THEN <<>>
    ELSE IF Len(words) = 1 THEN words[1]
    ELSE words[1] \o <<"_">> \o JoinWords(Tail(words))

\* C11 as stated: the accepted identifier is the input lower-cased, with
\* spaces and hyphens mapped to underscores, characters outside [a-z0-9_]
\* stripped and repeated underscores collapsed; it holds only [a-z0-9_] and
\* no two consecutive underscores; normalization fails with
\* MissingIdentifier if and only if the identifier is empty after these
\* steps.
C11_IdentifierSteps ==
    idPc = "normalized" =>
        LET mapped == Replace(Replace(Lower(IdString(idRaw)), "-", "_"), " ", "_")
            kept == SelectSeq(mapped, LAMBDA c : c \in Lowercase \cup Digits \cup {"_"})
            stated == CollapseUnderscores(kept)
        IN /\ (idOut.exited /\ idOut.error.kind = "MissingIdentifier") <=> stated = <<>>
           /\ ~idOut.exited =>
                 /\ idOut.value.id = stated
                 /\ Range(stated) \subseteq Lowercase \cup Digits \cup {"_"}
                 /\ \A i \in 1..(Len(stated) - 1) :
                       ~(stated[i] = "_" /\ stated[i + 1] = "_")

\* C11 (amended): the accepted identifier is the words of the input (runs of
\* lower-cased letters and digits, other characters dropped) joined by
\* single underscores: it holds only [a-z0-9_], no two consecutive
\* underscores and no underscore at either end; normalization fails with
\* MissingIdentifier if and only if the input holds no letter or digit.
C11_IdentifierSnakeCase ==
    idPc = "normalized" =>
        LET input == IdString(idRaw)
            id == idOut.value.id
        IN /\ idOut.exited <=> IdWords(input) = <<>>
           /\ idOut.exited => idOut.error.kind = "MissingIdentifier"
           /\ idOut.exited <=> ~(\E c \in Range(input) : c \in AlphaNumeric)
           /\ ~idOut.exited =>
                 /\ id = JoinWords(IdWords(input))
                 /\ id # <<>>
                 /\ Range(id) \subseteq Lowercase \cup Digits \cup {"_"}
                 /\ \A i \in 1..(Len(id) - 1) : ~(id[i] = "_" /\ id[i + 1] = "_")
                 /\ id[1] # "_" /\ id[Len(id)] # "_"

\* An identifier was accepted whose input begins with an underscore and
\* holds an upper-case letter: the steps changed it.
C11_EdgeUnderscoreSeen ==
    /\ idPc = "normalized"
    /\ ~idOut.exited
    /\ idRaw.v["id"].t = "str"
    /\ Head(idRaw.v["id"].v) = "_"
    /\ "B" \in Range(idRaw.v["id"].v)
    /\ idOut.value.id # idRaw.v["id"].v

----------------------------------------------------------------------------
(* Specification of placeholder validation: a file rule with a source and  *)
(* a target template is normalized, which validates both templates.        *)

TemplateTokens ==
    { <<"{", "l", "a", "n", "g", "}">>, <<"{", "L", "a", "n", "g", "}">>,
      <<"{", "l", "a", "n", "g", "_", "f", "o", "l", "d", "e", "r", "}">>,
      <<"{">>, <<"}">>, <<"x">>, <<"-">> }

RECURSIVE Concat(_)
Concat(tokens) ==
    IF tokens = <<>> THEN <<>> ELSE Head(tokens) \o Concat(Tail(tokens))

Templates == {Concat(tokens) : tokens \in SeqsUpTo(TemplateTokens, MaxTokens)}

\* The templates as normalize_file_rule hands them to validate_placeholders.
CleanTemplate(value) == Replace(Strip(value), "\\", "/")

ValidateTemplates ==
    /\ phPc = "idle"
    /\ \E source, target \in Templates :
        LET rule == JDict([source |-> JStr(source), target |-> JStr(target)])
        IN /\ phPc' = "validated"
           /\ phRule' = rule
           /\ phSourceOut' = validate_placeholders(CleanTemplate(source), "source")
           /\ phTargetOut' = validate_placeholders(CleanTemplate(target), "target")
           /\ phOut' = normalize_file_rule(rule, 0)
    /\ UNCHANGED <<pathVars, fldVars, rulesVars, cfgVars, regVars, crVars, idVars, setupVars, genVars, reqVars, docVars, encVars, trVars, rdVars, chVars, edVars>>

NextPlaceholder == ValidateTemplates
SpecPlaceholder == Init /\ [][NextPlaceholder]_vars

\* The template holds a token {name}, name a non-empty run of letters,
\* digits and underscores, that is not one of the whitelisted names.
UnsupportedToken(template) ==
    \E i, j \in 1..Len(template) :
        /\ i + 1 < j
        /\ template[i] = "{"
        /\ template[j] = "}"
        /\ \A k \in (i + 1)..(j - 1) : template[k] \in WordChars
        /\ SubSeq(template, i + 1, j - 1) \notin {S_lang, S_lang_folder, S_project_name}

\* C12: validation of a template fails, with UnsupportedPlaceholder, if and
\* only if the template holds a {name} token whose name is not whitelisted;
\* normalization of a rule with non-empty templates validates the source
\* and then the target, fails with UnsupportedPlaceholder if and only if one
\* of them holds such a token, and otherwise keeps both templates.
C12_PlaceholderWhitelist ==
    phPc = "validated" =>
        LET source == CleanTemplate(phRule.v["source"].v)
            target == CleanTemplate(phRule.v["target"].v)
        IN /\ phSourceOut.exited <=> UnsupportedToken(source)
           /\ phTargetOut.exited <=> UnsupportedToken(target)
           /\ phSourceOut.exited => phSourceOut.error.kind = "UnsupportedPlaceholder"
           /\ phTargetOut.exited => phTargetOut.error.kind = "UnsupportedPlaceholder"
           /\ (source # <<>> /\ target # <<>>) =>
                 /\ (phOut.exited /\ phOut.error.kind = "UnsupportedPlaceholder")
                        <=> (UnsupportedToken(source) \/ UnsupportedToken(target))
                 /\ phOut.exited =>
                        /\ phOut.error.kind = "UnsupportedPlaceholder"
                        /\ phOut.error.label =
                              IF UnsupportedToken(source) THEN "source" ELSE "target"
                 /\ ~phOut.exited =>
                        /\ phOut.value.source = source
                        /\ phOut.value.target = target

\* A rule was rejected for its target: the source uses a whitelisted
\* placeholder and passes, the target holds a whitelisted placeholder
\* followed by one outside the whitelist.
C12_TargetRejected ==
    /\ phPc = "validated"
    /\ phOut.exited
    /\ phOut.error.kind = "UnsupportedPlaceholder"
    /\ phOut.error.label = "target"
    /\ FindPlaceholders(phRule.v["source"].v) # <<>>
    /\ Len(FindPlaceholders(phRule.v["target"].v)) = 2
    /\ FindPlaceholders(phRule.v["target"].v)[1] \in ALLOWED_PLACEHOLDERS

----------------------------------------------------------------------------
(* Project setup (project_setup.py): main creates the base folders and     *)
(* then writes the generated files. Paths are sequences of parts, as       *)
(* pathlib splits them.  A location is written from the project directory, *)
(* which main has just created and which is empty: <<>> is the project     *)
(* directory, a location that begins with ".." lies above it, and one that *)
(* begins with "/" is counted from the file-system root.                   *)

\* The location the system reaches for project_path / folder: an absolute
\* folder replaces the project path, and ".." steps to the parent.
RECURSIVE Locate(_, _)
Locate(parts, location) ==
    IF parts = <<>> THEN location
    ELSE LET part == Head(parts)
         IN IF part = "/" THEN Locate(Tail(parts), <<"/">>)
            ELSE IF part # ".." THEN Locate(Tail(parts), Append(location, part))
            ELSE IF location = <<>> \/ location[Len(location)] = ".."
            THEN Locate(Tail(parts), Append(location, ".."))
            ELSE IF location = <<"/">> THEN Locate(Tail(parts), location)
            ELSE Locate(Tail(parts), SubSeq(location, 1, Len(location) - 1))

ProjectLocation(folder) == Locate(folder, <<>>)

\* The directories that exist when create_base_structure starts: the
\* project directory, the directories above it and the root.
ExistsBefore(location) ==
    location = <<"/">> \/ \A i \in 1..Len(location) : location[i] = ".."

\* Path(...).mkdir(parents=True, exist_ok=True): the folder and its parents.
MkdirParents(dirs, folder) ==
    dirs \cup {location \in {ProjectLocation(SubSeq(folder, 1, n)) : n \in 1..Len(folder)} :
                  ~ExistsBefore(location)}

\* Path(...).iterdir(): the entries directly inside the folder; a directory
\* above the project holds the directory that leads to the project.
Iterdir(dirs, files, folder) ==
    {p \in dirs \cup files :
        Len(p) = Len(folder) + 1 /\ SubSeq(p, 1, Len(folder)) = folder}
    \cup (IF folder # <<>> /\ ExistsBefore(folder) THEN {<<>>} ELSE {})

\* The folder list of create_base_structure.
BaseFolders(components) ==
    << <<".vscode">>, <<"Automation">>, <<"Docs">>,
       <<"Docs", "requirements">>, <<"Docs", "architecture">> >> \o components

\* The files each step of main writes, in the order of the calls.
create_vscode_settings == { <<".vscode", "settings.json">> }
create_docs_files ==
    { <<"Docs", "requirements", "high_level_requirements.yaml">>,
      <<"Docs", "requirements", "software_requirements.yaml">>,
      <<"Docs", "architecture", "runtime_diagram.puml">>,
      <<"Docs", "architecture", "class_diagram.puml">>,
      <<"Docs", "architecture", "block_diagram.puml">> }
create_agents_md == { <<"AGENTS.md">> }
create_gitignore == { <<".gitignore">> }
create_scripts == { <<"setup.sh">>, <<"start.sh">> }
create_automation_readme == { <<"Automation", "README.md">> }
create_readme == { <<"README.md">> }
create_docs_builder_script == { <<"Automation", "docs_builder.py">> }
create_env_bootstrap_script == { <<"Automation", "bootstrap_envs.sh">> }

FileSteps ==
    << create_vscode_settings, create_docs_files, create_agents_md,
       create_gitignore, create_scripts, create_automation_readme,
       create_readme, create_docs_builder_script, create_env_bootstrap_script >>

ComponentValues ==
    { <<"backend">>, <<"frontend">>, <<"backend", "api">>, <<"Docs">>,
      <<"..", "out">>, <<"/", "abs">>, <<"lib", "..">> }

ComponentInputs == SeqsUpTo(ComponentValues, MaxComponents) \ {<<>>}

\* main up to project_path.mkdir(): the answers of get_user_input.
SetupStart ==
    /\ setupPc = "idle"
    /\ \E components \in ComponentInputs, create_venv, use_git \in BOOLEAN :
        setupConfig' = [components |-> components,
                        create_venv |-> create_venv,
                        use_git |-> use_git]
    /\ setupPc' = "create_base_structure"
    /\ setupStep' = 1
    /\ UNCHANGED <<setupDirs, setupFiles>>
    /\ UNCHANGED <<pathVars, fldVars, rulesVars, cfgVars, regVars, crVars, idVars, phVars, genVars, reqVars, docVars, encVars, trVars, rdVars, chVars, edVars>>

\* One iteration of the loop of create_base_structure.
CreateFolder ==
    /\ setupPc = "create_base_structure"
    /\ LET folders == BaseFolders(setupConfig.components)
           folder == ProjectLocation(folders[setupStep])
           dirs == MkdirParents(setupDirs, folders[setupStep])
       IN /\ setupDirs' = dirs
          /\ setupFiles' =
                IF Iterdir(dirs, setupFiles, folder) = {}
                THEN setupFiles \cup {folder \o <<".gitkeep">>}
                ELSE setupFiles
          /\ IF setupStep < Len(folders)
             THEN setupStep' = setupStep + 1 /\ setupPc' = setupPc
             ELSE setupStep' = 1 /\ setupPc' = "create_files"
    /\ UNCHANGED setupConfig
    /\ UNCHANGED <<pathVars, fldVars, rulesVars, cfgVars, regVars, crVars, idVars, phVars, genVars, reqVars, docVars, encVars, trVars, rdVars, chVars, edVars>>

\* One of the calls create_vscode_settings .. create_env_bootstrap_script.
CreateFiles ==
    /\ setupPc = "create_files"
    /\ setupFiles' = setupFiles \cup FileSteps[setupStep]
    /\ IF setupStep < Len(FileSteps)
       THEN setupStep' = setupStep + 1 /\ setupPc' = setupPc
       ELSE setupStep' = 0 /\ setupPc' = "environments"
    /\ UNCHANGED <<setupConfig, setupDirs>>
    /\ UNCHANGED <<pathVars, fldVars, rulesVars, cfgVars, regVars, crVars, idVars, phVars, genVars, reqVars, docVars, encVars, trVars, rdVars, chVars, edVars>>

\* setup_docs_venv, create_virtual_env and initialize_git: the directories
\* the spawned tools create.
CreateEnvironments ==
    /\ setupPc = "environments"
    /\ setupDirs' = setupDirs
            \cup { <<"Automation", "docs_venv">> }
            \cup (IF setupConfig.create_venv THEN { <<"venv">> } ELSE {})
            \cup (IF setupConfig.use_git THEN { <<".git">> } ELSE {})
    /\ setupPc' = "done"
    /\ UNCHANGED <<setupConfig, setupStep, setupFiles>>
    /\ UNCHANGED <<pathVars, fldVars, rulesVars, cfgVars, regVars, crVars, idVars, phVars, genVars, reqVars, docVars, encVars, trVars, rdVars, chVars, edVars>>

NextSetup == SetupStart \/ CreateFolder \/ CreateFiles \/ CreateEnvironments
SpecSetup == Init /\ [][NextSetup]_vars

\* C13: at the end of a run a .gitkeep exists only in declared folders that
\* no step populated: a folder that holds a .gitkeep is a declared folder
\* and holds nothing else.
C13_MarkersOnlyInEmptyFolders ==
    setupPc = "done" =>
        \A d \in setupDirs :
            (d \o <<".gitkeep">>) \in setupFiles =>
                /\ d \in Range(BaseFolders(setupConfig.components))
                /\ Iterdir(setupDirs, setupFiles, d) = {d \o <<".gitkeep">>}

----------------------------------------------------------------------------
(* FileGenerationPipeline.generate. The generator that consumes the        *)
(* configurations is not among the source files; it is modelled from the   *)
(* component design of the specification (section 4.5), on top of the      *)
(* configuration normalization of create_configuration.py.                 *)

\* The context of a generation run: placeholder name -> value.
ContextValue(name) ==
    CASE name = S_lang -> <<"e", "n">>
      [] name = S_lang_folder -> <<"E", "N">>
      [] name = S_project_name -> <<"P">>

\* PlaceholderRenderer.render, first pass: every {name} with a whitelisted
\* name is replaced by its context value.
RECURSIVE Substitute(_)
Substitute(template) ==
    IF template = <<>> THEN <<>>
    ELSE IF Head(template) # "{"
    THEN <<Head(template)>> \o Substitute(Tail(template))
    ELSE LET n == WordRun(Tail(template))
         IN IF /\ n > 0
               /\ Len(template) >= n + 2
               /\ template[n + 2] = "}"
               /\ SubSeq(template, 2, n + 1) \in ALLOWED_PLACEHOLDERS
            THEN ContextValue(SubSeq(template, 2, n + 1))
                     \o Substitute(SubSeq(template, n + 3, Len(template)))
            ELSE <<"{">> \o Substitute(Tail(template))

\* PlaceholderRenderer.render: the second pass fails on a remaining
\* {identifier} pattern.
Render(template, label) ==
    LET result == Substitute(template)
    IN IF FindPlaceholders(result) # <<>>
       THEN Exit(Err("UnresolvedPlaceholder", label))
       ELSE Return(result)

\* The template files below the artifact root.
Artifacts == { <<"s">>, <<"u">>, <<"e", "n">> }

\* Rendering and PathSafety for one template of a rule.
RenderPath(template, label) ==
    LET rendered == Render(template, label)
    IN IF rendered.exited THEN rendered
       ELSE normalize_relative_path(rendered.value, label)

\* The file of the project tree at 'path' after a copy of 'content'.
CopyTo(project, path, content) ==
    {f \in project : f.path # path} \cup {[path |-> path, content |-> content]}

\* Nothing of the project tree lies below the folder.
FolderEmpty(project, folder) ==
    ~\E f \in project : StartsWith(f.path, folder \o <<"/">>)

GenRuleItems ==
    {MkDict([source |-> JStr(s), target |-> JStr(t), enabled |-> e]) :
        s \in { <<"s">>, <<"u">>, <<"m">> },
        t \in { <<"t">>, <<"{", "l", "a", "n", "g", "}">>, <<"e", "n">>, <<"d", "/", "t">> },
        e \in {Missing, JBool(FALSE)}}

GenInputs ==
    {MkDict([id |-> JStr(<<"a">>), folders |-> fo, files |-> JList(fi)]) :
        fo \in {Missing, JList(<<JStr(<<"d">>)>>)},
        fi \in SeqsUpTo(GenRuleItems, MaxGenRules)}

\* The configuration is loaded (normalized); step 1 creates its folders.
GenerateStart ==
    /\ genPc = "idle"
    /\ \E raw \in GenInputs :
        LET configuration == normalize_configuration_payload(raw)
        IN /\ genRaw' = raw
           /\ genConfig' = configuration
           /\ genPc' = IF configuration.exited THEN "rejected" ELSE "rules"
    /\ genRule' = 1
    /\ UNCHANGED <<genProject, genGenerated, genError>>
    /\ UNCHANGED <<pathVars, fldVars, rulesVars, cfgVars, regVars, crVars, idVars, phVars, setupVars, reqVars, docVars, encVars, trVars, rdVars, chVars, edVars>>

\* Step 2 for the next rule of the list.
GenerateRule ==
    /\ genPc = "rules"
    /\ genRule <= Len(genConfig.value.files)
    /\ LET rule == genConfig.value.files[genRule]
           source == RenderPath(rule.source, "source")
           target == RenderPath(rule.target, "target")
           failure ==
               IF source.exited THEN source.error
               ELSE IF target.exited THEN target.error
               ELSE IF source.value \notin Artifacts
               THEN Err("MissingArtifact", "source")
               ELSE IF \E g \in Range(genGenerated) : g.path = target.value
               THEN Err("DuplicateTarget", "target")
               ELSE NoError
       IN IF ~rule.enabled
          THEN /\ genRule' = genRule + 1
               /\ UNCHANGED <<genPc, genProject, genGenerated, genError>>
          ELSE IF failure # NoError
          THEN /\ genPc' = "failed"
               /\ genError' = failure
               /\ UNCHANGED <<genRule, genProject, genGenerated>>
          ELSE /\ genProject' = CopyTo(genProject, target.value, source.value)
               /\ genGenerated' =
                      Append(genGenerated, [rule |-> genRule, path |-> target.value])
               /\ genRule' = genRule + 1
               /\ UNCHANGED <<genPc, genError>>
    /\ UNCHANGED <<genRaw, genConfig>>
    /\ UNCHANGED <<pathVars, fldVars, rulesVars, cfgVars, regVars, crVars, idVars, phVars, setupVars, reqVars, docVars, encVars, trVars, rdVars, chVars, edVars>>

\* Step 4, after all copies: empty declared folders receive the marker.
GenerateMarkers ==
    /\ genPc = "rules"
    /\ genRule > Len(genConfig.value.files)
    /\ genProject' =
          IF genConfig.value.behavior.add_gitkeep_to_empty_folders
          THEN genProject \cup
                  { [path |-> folder \o <<"/", ".", "g", "i", "t", "k", "e", "e", "p">>, content |-> <<>>] :
                      folder \in {d \in Range(genConfig.value.folders) :
                                      FolderEmpty(genProject, d)} }
          ELSE genProject
    /\ genPc' = "done"
    /\ UNCHANGED <<genRaw, genConfig, genRule, genGenerated, genError>>
    /\ UNCHANGED <<pathVars, fldVars, rulesVars, cfgVars, regVars, crVars, idVars, phVars, setupVars, reqVars, docVars, encVars, trVars, rdVars, chVars, edVars>>

NextGenerate == GenerateStart \/ GenerateRule \/ GenerateMarkers
SpecGenerate == Init /\ [][NextGenerate]_vars

\* The rule at position k of the document is enabled.
RawEnabled(doc, k) ==
    Get(doc.v["files"].v[k], "enabled", JBool(TRUE)) = JBool(TRUE)

\* The rendered path of a template of the rule at position k.
RawRendered(doc, k, field) ==
    RenderPath(CleanTemplate(doc.v["files"].v[k].v[field].v), field)

\* The rule at position k renders to safe paths and its artifact exists.
RuleReady(doc, k) ==
    /\ ~RawRendered(doc, k, "source").exited
    /\ ~RawRendered(doc, k, "target").exited
    /\ RawRendered(doc, k, "source").value \in Artifacts

\* The enabled rule at position j renders to the target of an earlier
\* enabled rule.
RepeatsTarget(doc, j) ==
    /\ RawEnabled(doc, j)
    /\ \E i \in 1..(j - 1) :
          /\ RawEnabled(doc, i)
          /\ RawRendered(doc, i, "target") = RawRendered(doc, j, "target")

----------------------------------------------------------------------------
(* RequirementGraphValidator: validate_requirement_list of the generated   *)
(* documentation builder. YAML values are the tagged values used for JSON. *)

\* hash(x) succeeds: lists and mappings are unhashable.
Hashable(x) == x.t \notin {"list", "dict"}

\* bool(x)
Truthy(x) ==
    CASE x.t = "null" -> FALSE
      [] x.t = "bool" -> x.v
      [] x.t = "num" -> x.v # 0
      [] x.t = "str" -> x.v # <<>>
      [] x.t = "list" -> x.v # <<>>
      [] x.t = "dict" -> DOMAIN x.v # {}

allowed_status == { <<"d", "r", "a", "f", "t">>, <<"i", "n", " ", "p", "r", "o", "g", "r", "e", "s", "s">>, <<"i", "n", " ", "r", "e", "v", "i", "e", "w">>, <<"f", "i", "n", "i", "s", "h", "e", "d">> }

HighLevelKeys == <<"id", "name", "status", "description">>
SoftwareKeys == <<"id", "name", "status", "refines", "description">>

\* An error handed to add_error: its kind and the index or identifier its
\* message names.
ReqError(kind, subject) == [kind |-> kind, subject |-> subject]

\* The result of a call: the cleaned list and the errors handed to
\* add_error; raised when the call ended with an exception.
ReqResult(raised, cleaned, errors) ==
    [raised |-> raised, cleaned |-> cleaned, errors |-> errors]

\* [k for k in required_keys if k not in item or item[k] in (None, "")]
MissingKeys(item, required_keys) ==
    SelectSeq(required_keys,
              LAMBDA k : k \notin DOMAIN item.v \/ item.v[k] \in {JNull, JStr(<<>>)})

\* Mutant: the status is compared without lower-casing it.
unknown_status_case_sensitive(item) ==
    LET status == PyStr(Get(item, "status", JStr(<<>>)))
    IN status # <<>> /\ status \notin allowed_status

\* status = str(item.get("status", "")).lower();
\* status and status not in allowed_status
unknown_status(item) ==
    LET status == Lower(PyStr(Get(item, "status", JStr(<<>>))))
    IN status # <<>> /\ status \notin allowed_status

\* The loop of validate_requirement_list from item idx on (one-based here;
\* the index in an error is the code's zero-based one).
RECURSIVE validate_loop(_, _, _, _, _, _)
validate_loop(data, idx, cleaned, seen_ids, errors, required_keys) ==
    IF idx > Len(data) THEN ReqResult(FALSE, cleaned, errors)
    ELSE LET item == data[idx]
         IN IF item.t # "dict"
            THEN validate_loop(data, idx + 1, cleaned, seen_ids,
                               Append(errors, ReqError("NotAMapping", JNum(idx - 1))),
                               required_keys)
            ELSE IF MissingKeys(item, required_keys) # <<>>
            THEN validate_loop(data, idx + 1, cleaned, seen_ids,
                               Append(errors, ReqError("MissingFields", JNum(idx - 1))),
                               required_keys)
            ELSE LET item_id == Get(item, "id", JNull)
                 IN IF ~Hashable(item_id)
                    THEN ReqResult(TRUE, <<>>, errors)
                    ELSE IF item_id \in seen_ids
                    THEN validate_loop(data, idx + 1, cleaned, seen_ids,
                                       Append(errors, ReqError("DuplicateId", item_id)),
                                       required_keys)
                    ELSE validate_loop(
                            data, idx + 1, Append(cleaned, item),
                            seen_ids \cup {item_id},
                            IF unknown_status(item)
                            THEN Append(errors, ReqError("UnknownStatus", item_id))
                            ELSE errors,
                            required_keys)

\* Mutant of the loop: the identifier of a kept entry is not remembered.
RECURSIVE validate_loop_forgets_ids(_, _, _, _, _, _)
validate_loop_forgets_ids(data, idx, cleaned, seen_ids, errors, required_keys) ==
    IF idx > Len(data) THEN ReqResult(FALSE, cleaned, errors)
    ELSE LET item == data[idx]
         IN IF item.t # "dict"
            THEN validate_loop_forgets_ids(data, idx + 1, cleaned, seen_ids,
                               Append(errors, ReqError("NotAMapping", JNum(idx - 1))),
                               required_keys)
            ELSE IF MissingKeys(item, required_keys) # <<>>
            THEN validate_loop_forgets_ids(data, idx + 1, cleaned, seen_ids,
                               Append(errors, ReqError("MissingFields", JNum(idx - 1))),
                               required_keys)
            ELSE LET item_id == Get(item, "id", JNull)
                 IN IF ~Hashable(item_id)
                    THEN ReqResult(TRUE, <<>>, errors)
                    ELSE IF item_id \in seen_ids
                    THEN validate_loop_forgets_ids(data, idx + 1, cleaned, seen_ids,
                                       Append(errors, ReqError("DuplicateId", item_id)),
                                       required_keys)
                    ELSE validate_loop_forgets_ids(
                            data, idx + 1, Append(cleaned, item),
                            seen_ids,
                            IF unknown_status(item)
                            THEN Append(errors, ReqError("UnknownStatus", item_id))
                            ELSE errors,
                            required_keys)

validate_requirement_list_forgets_ids(data, required_keys) ==
    IF data.t = "null" THEN ReqResult(FALSE, <<>>, <<>>)
    ELSE IF data.t # "list"
    THEN ReqResult(FALSE, <<>>, <<ReqError("NotAList", JNull)>>)
    ELSE validate_loop_forgets_ids(data.v, 1, <<>>, {}, <<>>, required_keys)

validate_requirement_list(data, required_keys) ==
    IF data.t = "null" THEN ReqResult(FALSE, <<>>, <<>>)
    ELSE IF data.t # "list"
    THEN ReqResult(FALSE, <<>>, <<ReqError("NotAList", JNull)>>)
    ELSE validate_loop(data.v, 1, <<>>, {}, <<>>, required_keys)

----------------------------------------------------------------------------
(* Specification of requirement-list validation: one list is validated as  *)
(* the high-level or as the software list.                                 *)

\* A requirement entry; a field that is Missing is absent.
ReqEntry(id, name, status, refines) ==
    MkDict([id |-> id, name |-> name, status |-> status, refines |-> refines,
            description |-> JStr(<<"d">>)])

ReqItems ==
    { ReqEntry(JStr(<<"a">>), JStr(<<"n">>), JStr(<<"d", "r", "a", "f", "t">>), JStr(<<"h">>)),
      ReqEntry(JStr(<<"a">>), JStr(<<"m">>), JStr(<<"F", "i", "n", "i", "s", "h", "e", "d">>), JStr(<<"h">>)),
      ReqEntry(JStr(<<"a">>), JStr(<<"n">>), Missing, JStr(<<"h">>)),
      ReqEntry(JStr(<<"b">>), JStr(<<"n">>), JStr(<<"b", "o", "g", "u", "s">>), JStr(<<"h">>)),
      ReqEntry(JStr(<<"b">>), JStr(<<"n">>), JStr(<<"I", "N", " ", "R", "E", "V", "I", "E", "W">>), Missing),
      ReqEntry(JStr(<<>>), JStr(<<"n">>), JStr(<<"d", "r", "a", "f", "t">>), JStr(<<"h">>)),
      ReqEntry(JNum(0), JNull, JStr(<<"d", "r", "a", "f", "t">>), JStr(<<"h">>)),
      ReqEntry(JNum(0), JStr(<<"n">>), JNum(1), JStr(<<"h">>)),
      ReqEntry(JList(<<JStr(<<"a">>)>>), JStr(<<"n">>), JStr(<<"d", "r", "a", "f", "t">>), JStr(<<"h">>)),
      JStr(<<"x">>) }

ReqDataInputs ==
    {JList(items) : items \in SeqsUpTo(ReqItems, MaxReqs)} \cup {JNull, JStr(<<"x">>)}

ValidateRequirements ==
    /\ reqPc = "idle"
    /\ \E data \in ReqDataInputs, required_keys \in {HighLevelKeys, SoftwareKeys} :
        /\ reqPc' = "validated"
        /\ reqData' = data
        /\ reqKeys' = required_keys
        /\ reqOut' = validate_requirement_list(data, required_keys)
    /\ UNCHANGED <<pathVars, fldVars, rulesVars, cfgVars, regVars, crVars, idVars, phVars, setupVars, genVars, docVars, encVars, trVars, rdVars, chVars, edVars>>

NextRequirements == ValidateRequirements
SpecRequirements == Init /\ [][NextRequirements]_vars

\* The entry is a mapping with every required field present and non-empty.
WellFormed(item, required_keys) ==
    /\ item.t = "dict"
    /\ \A i \in 1..Len(required_keys) :
          /\ required_keys[i] \in DOMAIN item.v
          /\ item.v[required_keys[i]] # JNull
          /\ item.v[required_keys[i]] # JStr(<<>>)

\* The entry at position i is accepted: it is well formed and no accepted
\* entry before it has its identifier.
RECURSIVE Accepted(_, _, _)
Accepted(data, i, required_keys) ==
    /\ WellFormed(data[i], required_keys)
    /\ ~\E j \in 1..(i - 1) :
          /\ Accepted(data, j, required_keys)
          /\ data[j].v["id"] = data[i].v["id"]

\* The subsequence of the entries at the positions in 'keep'.
RECURSIVE SubsequenceAt(_, _, _)
SubsequenceAt(data, keep, i) ==
    IF i > Len(data) THEN <<>>
    ELSE (IF i \in keep THEN <<data[i]>> ELSE <<>>) \o SubsequenceAt(data, keep, i + 1)

ExclusionKinds == {"NotAMapping", "MissingFields", "DuplicateId"}

\* C17: validation never aborts; the cleaned output is the order-preserving
\* subsequence of the accepted entries (mappings with every required field
\* present and non-empty that repeat no already accepted identifier), and
\* the excluded entries record one error each.
C17_CollectAndContinue ==
    (reqPc = "validated" /\ reqData.t = "list") =>
        LET data == reqData.v
            accepted == {i \in 1..Len(data) : Accepted(data, i, reqKeys)}
            exclusions == SelectSeq(reqOut.errors, LAMBDA e : e.kind \in ExclusionKinds)
        IN /\ ~reqOut.raised
           /\ reqOut.cleaned = SubsequenceAt(data, accepted, 1)
           /\ Len(exclusions) = Len(data) - Cardinality(accepted)

\* The positions of the entries of data that carry the identifier x, and
\* those among them that are well formed.
Occurrences(data, x) ==
    {i \in 1..Len(data) : data[i].t = "dict" /\ Get(data[i], "id", JNull) = x}

WellFormedOccurrences(data, x, required_keys) ==
    {i \in Occurrences(data, x) : WellFormed(data[i], required_keys)}

\* The least element of a non-empty set of positions.
First(positions) == CHOOSE i \in positions : \A j \in positions : i <= j

\* The number of duplicate-identifier errors recorded for x.
DuplicateErrors(errors, x) ==
    Cardinality({k \in 1..Len(errors) : errors[k] = ReqError("DuplicateId", x)})

C17_ReturnedSubsequence ==
    (reqPc = "validated" /\ reqData.t = "list" /\ ~reqOut.raised) =>
        LET data == reqData.v
            accepted == {i \in 1..Len(data) : Accepted(data, i, reqKeys)}
            exclusions == SelectSeq(reqOut.errors, LAMBDA e : e.kind \in ExclusionKinds)
        IN /\ reqOut.cleaned = SubsequenceAt(data, accepted, 1)
           /\ Len(exclusions) = Len(data) - Cardinality(accepted)

----------------------------------------------------------------------------
(* build_docs of the generated documentation builder: the two requirement  *)
(* lists are loaded and validated, the link index is built, the pages are  *)
(* written and the dangling requirements are reported.                     *)

\* links[key] = value on one of the two key families of the dictionary.
SetLink(links, key, value) ==
    [k \in DOMAIN links \cup {key} |-> IF k = key THEN value ELSE links[k]]

\* The first loop of the link construction from software requirement i on:
\* the forward links (keys "sw_<id>") and the dangling identifiers.
RECURSIVE forward_loop(_, _, _, _, _)
forward_loop(sw_req_data, i, hl_ids, links, dangling_sw) ==
    IF i > Len(sw_req_data)
    THEN [raised |-> FALSE, links |-> links, dangling_sw |-> dangling_sw]
    ELSE LET sw_req == sw_req_data[i]
             refines == Get(sw_req, "refines", JNull)
         IN IF Truthy(refines) /\ ~Hashable(refines)
            THEN [raised |-> TRUE, links |-> links, dangling_sw |-> dangling_sw]
            ELSE IF Truthy(refines) /\ refines \in hl_ids
            THEN forward_loop(sw_req_data, i + 1, hl_ids,
                              SetLink(links, PyStr(sw_req.v["id"]), PyStr(refines)),
                              dangling_sw)
            ELSE forward_loop(sw_req_data, i + 1, hl_ids, links,
                              Append(dangling_sw, Get(sw_req, "id", JStr(<<"<", "u", "n", "k", "n", "o", "w", "n", ">">>))))

\* [sw['id'] for sw in sw_req_data if sw.get('refines') == hl_id], as anchors.
RefiningSw(sw_req_data, hl_id) ==
    LET refining == SelectSeq(sw_req_data, LAMBDA sw : Get(sw, "refines", JNull) = hl_id)
    IN [k \in 1..Len(refining) |-> PyStr(refining[k].v["id"])]

\* The second loop from high-level requirement i on: the backward links
\* (keys "hl_<id>").
RECURSIVE backward_loop(_, _, _, _)
backward_loop(hl_req_data, i, sw_req_data, links) ==
    IF i > Len(hl_req_data) THEN links
    ELSE LET hl_id == hl_req_data[i].v["id"]
             refining_sw == RefiningSw(sw_req_data, hl_id)
         IN backward_loop(hl_req_data, i + 1, sw_req_data,
                          IF refining_sw # <<>>
                          THEN SetLink(links, PyStr(hl_id), refining_sw)
                          ELSE links)

\* The errors of one list, each with the label of its list.
Labelled(label, errors) ==
    [k \in 1..Len(errors) |->
        [label |-> label, kind |-> errors[k].kind, subject |-> errors[k].subject]]

HighItems ==
    { ReqEntry(JStr(<<"a">>), JStr(<<"n">>), JStr(<<"d", "r", "a", "f", "t">>), Missing),
      ReqEntry(JStr(<<"b">>), JStr(<<"n">>), JStr(<<"b", "o", "g", "u", "s">>), Missing),
      ReqEntry(JNum(0), JStr(<<"n">>), JStr(<<"F", "i", "n", "i", "s", "h", "e", "d">>), Missing),
      ReqEntry(JStr(<<"a">>), Missing, JStr(<<"d", "r", "a", "f", "t">>), Missing) }

SoftwareItems ==
    { ReqEntry(JStr(<<"s">>), JStr(<<"n">>), JStr(<<"d", "r", "a", "f", "t">>), JStr(<<"a">>)),
      ReqEntry(JStr(<<"t">>), JStr(<<"n">>), JStr(<<"D", "R", "A", "F", "T">>), JStr(<<"b">>)),
      ReqEntry(JStr(<<"s">>), JStr(<<"n">>), JStr(<<"n", "o", "p", "e">>), JStr(<<"b">>)),
      ReqEntry(JStr(<<"u">>), JStr(<<"n">>), JStr(<<"d", "r", "a", "f", "t">>), JStr(<<"z">>)),
      ReqEntry(JNum(1), JStr(<<"n">>), JStr(<<"d", "r", "a", "f", "t">>), JStr(<<"z">>)),
      ReqEntry(JStr(<<"v">>), JStr(<<"n">>), JStr(<<"d", "r", "a", "f", "t">>), JNum(0)),
      ReqEntry(JStr(<<"w">>), JStr(<<"n">>), JStr(<<"d", "r", "a", "f", "t">>), JList(<<JStr(<<"a">>)>>)) }

HighInputs == {JList(items) : items \in SeqsUpTo(HighItems, MaxHigh)} \cup {JNull}
SoftwareInputs ==
    {JList(items) : items \in SeqsUpTo(SoftwareItems, MaxSoftware)} \cup {JNull}

\* load_yaml of the two documents (None when a document cannot be loaded).
BuildDocsLoad ==
    /\ docPc = "idle"
    /\ \E hl_req_data \in HighInputs, sw_req_data \in SoftwareInputs :
        /\ docHigh' = hl_req_data
        /\ docSoftware' = sw_req_data
        /\ docErrors' =
              (IF hl_req_data = JNull
               THEN <<[label |-> "High-level", kind |-> "CouldNotLoad", subject |-> JNull]>>
               ELSE <<>>)
              \o (IF sw_req_data = JNull
                  THEN <<[label |-> "Software", kind |-> "CouldNotLoad", subject |-> JNull]>>
                  ELSE <<>>)
    /\ docPc' = "loaded"
    /\ UNCHANGED <<docCleanHigh, docCleanSoftware, docLinks, docDangling, docPages>>
    /\ UNCHANGED <<pathVars, fldVars, rulesVars, cfgVars, regVars, crVars, idVars, phVars, setupVars, genVars, reqVars, encVars, trVars, rdVars, chVars, edVars>>

\* The two validate_requirement_list calls.
BuildDocsValidate ==
    /\ docPc = "loaded"
    /\ LET high == validate_requirement_list(docHigh, HighLevelKeys)
           software == validate_requirement_list(docSoftware, SoftwareKeys)
       IN IF high.raised
          THEN /\ docPc' = "raised_validate"
               /\ docErrors' = docErrors \o Labelled("High-level", high.errors)
               /\ UNCHANGED <<docCleanHigh, docCleanSoftware>>
          ELSE IF software.raised
          THEN /\ docPc' = "raised_validate"
               /\ docErrors' = docErrors \o Labelled("High-level", high.errors)
                                         \o Labelled("Software", software.errors)
               /\ docCleanHigh' = high.cleaned
               /\ UNCHANGED docCleanSoftware
          ELSE /\ docPc' = "validated"
               /\ docErrors' = docErrors \o Labelled("High-level", high.errors)
                                         \o Labelled("Software", software.errors)
               /\ docCleanHigh' = high.cleaned
               /\ docCleanSoftware' = software.cleaned
    /\ UNCHANGED <<docHigh, docSoftware, docLinks, docDangling, docPages>>
    /\ UNCHANGED <<pathVars, fldVars, rulesVars, cfgVars, regVars, crVars, idVars, phVars, setupVars, genVars, reqVars, encVars, trVars, rdVars, chVars, edVars>>

\* The link construction.
BuildDocsLink ==
    /\ docPc = "validated"
    /\ LET hl_ids == {docCleanHigh[k].v["id"] : k \in 1..Len(docCleanHigh)}
           forward == forward_loop(docCleanSoftware, 1, hl_ids, <<>>, <<>>)
       IN /\ docDangling' = forward.dangling_sw
          /\ IF forward.raised
             THEN /\ docPc' = "raised_link"
                  /\ docLinks' = [sw |-> forward.links, hl |-> <<>>]
             ELSE /\ docPc' = "linked"
                  /\ docLinks' =
                        [sw |-> forward.links,
                         hl |-> backward_loop(docCleanHigh, 1, docCleanSoftware, <<>>)]
    /\ UNCHANGED <<docHigh, docSoftware, docCleanHigh, docCleanSoftware, docErrors, docPages>>
    /\ UNCHANGED <<pathVars, fldVars, rulesVars, cfgVars, regVars, crVars, idVars, phVars, setupVars, genVars, reqVars, encVars, trVars, rdVars, chVars, edVars>>

\* The pages are generated and written; generate_requirements_html calls
\* status.lower() and description.replace(), which only strings have.
BuildDocsWrite ==
    /\ docPc = "linked"
    /\ LET all == docCleanHigh \o docCleanSoftware
       IN IF \E k \in 1..Len(all) :
                 \/ all[k].v["status"].t # "str"
                 \/ all[k].v["description"].t # "str"
          THEN docPc' = "raised_write" /\ UNCHANGED docPages
          ELSE docPc' = "written" /\ docPages' = TRUE
    /\ UNCHANGED <<docHigh, docSoftware, docCleanHigh, docCleanSoftware, docErrors,
                   docLinks, docDangling>>
    /\ UNCHANGED <<pathVars, fldVars, rulesVars, cfgVars, regVars, crVars, idVars, phVars, setupVars, genVars, reqVars, encVars, trVars, rdVars, chVars, edVars>>

\* The aggregate error: ', '.join(dangling_sw) accepts only strings.
BuildDocsReport ==
    /\ docPc = "written"
    /\ IF docDangling = <<>>
       THEN docPc' = "done" /\ UNCHANGED docErrors
       ELSE IF \E k \in 1..Len(docDangling) : docDangling[k].t # "str"
       THEN docPc' = "raised_report" /\ UNCHANGED docErrors
       ELSE /\ docPc' = "done"
            /\ docErrors' = Append(docErrors,
                                   [label |-> "Software", kind |-> "DanglingReference",
                                    subject |-> JList(docDangling)])
    /\ UNCHANGED <<docHigh, docSoftware, docCleanHigh, docCleanSoftware, docLinks,
                   docDangling, docPages>>
    /\ UNCHANGED <<pathVars, fldVars, rulesVars, cfgVars, regVars, crVars, idVars, phVars, setupVars, genVars, reqVars, encVars, trVars, rdVars, chVars, edVars>>

NextBuildDocs ==
    \/ BuildDocsLoad
    \/ BuildDocsValidate
    \/ BuildDocsLink
    \/ BuildDocsWrite
    \/ BuildDocsReport

SpecBuildDocs == Init /\ [][NextBuildDocs]_vars

\* The cleaned high-level requirements a software requirement refers to.
Resolves(S) ==
    \E h \in 1..Len(docCleanHigh) :
        docCleanHigh[h].v["id"] = Get(S, "refines", JNull)

ForwardLinked(S) == PyStr(S.v["id"]) \in DOMAIN docLinks.sw

RecordedDangling(S) == \E j \in 1..Len(docDangling) : docDangling[j] = S.v["id"]

DanglingErrors ==
    {k \in 1..Len(docErrors) : docErrors[k].kind = "DanglingReference"}

\* C15: once both lists are validated, build_docs completes; every cleaned
\* software requirement whose refines equals no cleaned high-level
\* identifier is recorded as dangling and has no forward link, every cleaned
\* software requirement is exactly one of forward-linked or dangling, and the
\* dangling identifiers are reported in one aggregate error (none when there
\* is no dangling requirement).
C15_DanglingReported ==
    docPc \in {"done", "raised_link", "raised_report"} =>
        /\ docPc = "done"
        /\ \A k \in 1..Len(docCleanSoftware) :
              LET S == docCleanSoftware[k]
              IN /\ ~Resolves(S) => RecordedDangling(S) /\ ~ForwardLinked(S)
                 /\ ForwardLinked(S) # RecordedDangling(S)
        /\ Cardinality(DanglingErrors) = (IF docDangling = <<>> THEN 0 ELSE 1)
        /\ \A k \in DanglingErrors : docErrors[k].subject = JList(docDangling)

\* S's anchor is in the backward (refined-by) list of H.
BackwardLink(H, S) ==
    /\ PyStr(H.v["id"]) \in DOMAIN docLinks.hl
    /\ PyStr(S.v["id"]) \in Range(docLinks.hl[PyStr(H.v["id"])])

\* S has a forward link that points to H.
ForwardLink(S, H) ==
    /\ ForwardLinked(S)
    /\ docLinks.sw[PyStr(S.v["id"])] = PyStr(H.v["id"])

LinksBuilt == docPc \in {"linked", "written", "done", "raised_write", "raised_report"}

\* C16: once the link index is built, for every cleaned high-level
\* requirement H and cleaned software requirement S: S is in H's backward
\* list iff S's refines equals H's identifier iff S has a forward link to H.
C16_LinksSymmetric ==
    LinksBuilt =>
        \A h \in 1..Len(docCleanHigh), k \in 1..Len(docCleanSoftware) :
            LET H == docCleanHigh[h]
                S == docCleanSoftware[k]
                refines == Get(S, "refines", JNull) = H.v["id"]
            IN /\ BackwardLink(H, S) <=> refines
               /\ refines <=> ForwardLink(S, H)

\* The status errors recorded for identifier x of the list with this label.
StatusErrors(label, x) ==
    {k \in 1..Len(docErrors) :
        docErrors[k] = [label |-> label, kind |-> "UnknownStatus", subject |-> x]}

\* The status of the entry matches one of the four, in any letter case.
StatusMatches(item) ==
    \E known \in allowed_status :
        Lower(PyStr(Get(item, "status", JStr(<<>>)))) = Lower(known)

\* The accepted entries of a loaded document: the first well-formed
\* occurrence of each identifier.
AcceptedEntries(doc, required_keys) ==
    IF doc.t # "list" THEN {}
    ELSE {doc.v[i] : i \in {j \in 1..Len(doc.v) : Accepted(doc.v, j, required_keys)}}

\* C19, one list: an accepted entry stays in the cleaned list whatever its
\* status, and records one status error when the status matches none of the
\* four and none when it matches one in any letter case.
StatusAdvisory(doc, cleaned, label, required_keys) ==
    \A item \in AcceptedEntries(doc, required_keys) :
        /\ item \in Range(cleaned)
        /\ Cardinality(StatusErrors(label, item.v["id"]))
              = (IF StatusMatches(item) THEN 0 ELSE 1)

\* C19: status is advisory.  Once the link index is built, every accepted
\* entry is in its cleaned list, with one status error when its status
\* matches none of the four statuses and none when it matches one in any
\* letter case; and a software requirement S that names (by a non-empty
\* refines) a high-level requirement H is linked to it in both directions
\* also when S or H has an unmatched status.
C19_StatusAdvisory ==
    LinksBuilt =>
        /\ StatusAdvisory(docHigh, docCleanHigh, "High-level", HighLevelKeys)
        /\ StatusAdvisory(docSoftware, docCleanSoftware, "Software", SoftwareKeys)
        /\ \A H \in AcceptedEntries(docHigh, HighLevelKeys),
              S \in AcceptedEntries(docSoftware, SoftwareKeys) :
                 /\ ~StatusMatches(H) \/ ~StatusMatches(S)
                 /\ Get(S, "refines", JNull) = H.v["id"]
                 /\ Truthy(Get(S, "refines", JNull))
                 => ForwardLink(S, H) /\ BackwardLink(H, S)

\* A requirement with an unmatched status was kept with one error and is
\* linked in both directions to a requirement whose status is in upper case.
C19_UnknownStatusLinked ==
    /\ docPc = "done"
    /\ \E H \in Range(docCleanHigh), S \in Range(docCleanSoftware) :
          /\ ~StatusMatches(H)
          /\ StatusErrors("High-level", H.v["id"]) # {}
          /\ StatusMatches(S)
          /\ PyStr(S.v["status"]) # Lower(PyStr(S.v["status"]))
          /\ ForwardLink(S, H)
          /\ BackwardLink(H, S)

----------------------------------------------------------------------------
(* _plantuml_encode of the generated documentation builder: the text is    *)
(* compressed into a raw DEFLATE stream and the compressed bytes are       *)
(* transcoded three at a time into characters of a 64-character alphabet.  *)
(* A text is a sequence of code points, a byte a number in 0..255.         *)

\* str.encode("utf-8") of one code point below 65536.
utf8_char(cp) ==
    IF cp < 128 THEN <<cp>>
    ELSE IF cp < 2048 THEN <<192 + (cp \div 64), 128 + (cp % 64)>>
    ELSE <<224 + (cp \div 4096), 128 + ((cp \div 64) % 64), 128 + (cp % 64)>>

RECURSIVE utf8(_)
utf8(text) == IF text = <<>> THEN <<>> ELSE utf8_char(Head(text)) \o utf8(Tail(text))

\* The w low bits of n, most significant first.
RECURSIVE Bits(_, _)
Bits(n, w) == IF w = 0 THEN <<>> ELSE Append(Bits(n \div 2, w - 1), n % 2)

\* The fixed Huffman code of a literal byte (RFC 1951, 3.2.6).
LiteralCode(b) == IF b < 144 THEN Bits(48 + b, 8) ELSE Bits(400 + (b - 144), 9)

RECURSIVE LiteralCodes(_)
LiteralCodes(data) ==
    IF data = <<>> THEN <<>> ELSE LiteralCode(Head(data)) \o LiteralCodes(Tail(data))

\* The bits of a stream, packed into bytes from the least significant bit,
\* the last byte filled with zero bits.
RECURSIVE PackBits(_)
PackBits(bits) ==
    IF bits = <<>> THEN <<>>
    ELSE LET w == IF Len(bits) < 8 THEN Len(bits) ELSE 8
             byte[k \in 0..w] ==
                 IF k = 0 THEN 0 ELSE byte[k - 1] + bits[k] * (2 ^ (k - 1))
         IN <<byte[w]>> \o PackBits(SubSeq(bits, w + 1, Len(bits)))

\* No three bytes of the data occur again later in it: the compressor finds
\* no match and emits every byte as a literal.
NoMatch(data) ==
    \A i, j \in 1..(Len(data) - 2) :
        i < j => SubSeq(data, i, i + 2) # SubSeq(data, j, j + 2)

\* compressor.compress(data) + compressor.flush() of a fresh raw DEFLATE
\* compressor at level 9, for data without a match: one final block with
\* the fixed Huffman codes, every byte a literal, then the end-of-block code.
Deflate(data) ==
    PackBits(<<1, 1, 0>> \o LiteralCodes(data) \o <<0, 0, 0, 0, 0, 0, 0>>)

alphabet ==
    DigitChar
    \o <<"A", "B", "C", "D", "E", "F", "G", "H", "I", "J", "K", "L", "M",
         "N", "O", "P", "Q", "R", "S", "T", "U", "V", "W", "X", "Y", "Z">>
    \o <<"a", "b", "c", "d", "e", "f", "g", "h", "i", "j", "k", "l", "m",
         "n", "o", "p", "q", "r", "s", "t", "u", "v", "w", "x", "y", "z">>
    \o <<"-", "_">>

\* Mutant: a partial group is filled up to four characters with "=".
EncodeGroup_padded(compressed, i) ==
    LET n == Len(compressed)
        b1 == compressed[i + 1]
        b2 == IF i + 1 < n THEN compressed[i + 2] ELSE 0
        b3 == IF i + 2 < n THEN compressed[i + 3] ELSE 0
    IN <<alphabet[((b1 \div 4) % 64) + 1],
         alphabet[((b1 % 4) * 16 + ((b2 \div 16) % 16)) + 1]>>
       \o (IF i + 1 < n
           THEN <<alphabet[((b2 % 16) * 4 + ((b3 \div 64) % 4)) + 1]>>
           ELSE <<"=">>)
       \o (IF i + 2 < n THEN <<alphabet[(b3 % 64) + 1]>> ELSE <<"=">>)

\* Mutant: the third character takes bits 5..4 of byte 3 instead of its two
\* high bits.
EncodeGroup_low_shift(compressed, i) ==
    LET n == Len(compressed)
        b1 == compressed[i + 1]
        b2 == IF i + 1 < n THEN compressed[i + 2] ELSE 0
        b3 == IF i + 2 < n THEN compressed[i + 3] ELSE 0
    IN <<alphabet[((b1 \div 4) % 64) + 1],
         alphabet[((b1 % 4) * 16 + ((b2 \div 16) % 16)) + 1]>>
       \o (IF i + 1 < n
           THEN <<alphabet[((b2 % 16) * 4 + ((b3 \div 16) % 4)) + 1]>>
           ELSE <<>>)
       \o (IF i + 2 < n THEN <<alphabet[(b3 % 64) + 1]>> ELSE <<>>)

\* One iteration of the loop: the characters appended for the group that
\* starts at byte offset i (counted from 0).
EncodeGroup(compressed, i) ==
    LET n == Len(compressed)
        b1 == compressed[i + 1]
        b2 == IF i + 1 < n THEN compressed[i + 2] ELSE 0
        b3 == IF i + 2 < n THEN compressed[i + 3] ELSE 0
    IN <<alphabet[((b1 \div 4) % 64) + 1],
         alphabet[((b1 % 4) * 16 + ((b2 \div 16) % 16)) + 1]>>
       \o (IF i + 1 < n
           THEN <<alphabet[((b2 % 16) * 4 + ((b3 \div 64) % 4)) + 1]>>
           ELSE <<>>)
       \o (IF i + 2 < n THEN <<alphabet[(b3 % 64) + 1]>> ELSE <<>>)

\* Line feed, "a", e with acute accent (two bytes), the euro sign (three).
TextChars == {10, 97, 233, 8364}

TextInputs == {text \in SeqsUpTo(TextChars, MaxText) : NoMatch(utf8(text))}

\* A call: a fresh compressor compresses the text; encoded_chars = [].
PlantumlEncodeCall ==
    /\ encPc \in {"idle", "returned"}
    /\ encCalls < MaxCalls
    /\ \E puml_text \in TextInputs :
        /\ encText' = puml_text
        /\ encCompressed' = Deflate(utf8(puml_text))
    /\ encPrev' = IF encPc = "returned"
                  THEN [text |-> encText, token |-> encToken]
                  ELSE encPrev
    /\ encI' = 0
    /\ encChars' = <<>>
    /\ encToken' = <<>>
    /\ encCalls' = encCalls + 1
    /\ encPc' = "loop"
    /\ UNCHANGED <<pathVars, fldVars, rulesVars, cfgVars, regVars, crVars, idVars, phVars, setupVars, genVars, reqVars, docVars, trVars, rdVars, chVars, edVars>>

\* for i in range(0, len(compressed), 3)
PlantumlEncodeGroup ==
    /\ encPc = "loop"
    /\ encI < Len(encCompressed)
    /\ encChars' = encChars \o EncodeGroup(encCompressed, encI)
    /\ encI' = encI + 3
    /\ UNCHANGED <<encPc, encText, encCompressed, encToken, encCalls, encPrev>>
    /\ UNCHANGED <<pathVars, fldVars, rulesVars, cfgVars, regVars, crVars, idVars, phVars, setupVars, genVars, reqVars, docVars, trVars, rdVars, chVars, edVars>>

\* return "".join(encoded_chars)
PlantumlEncodeReturn ==
    /\ encPc = "loop"
    /\ encI >= Len(encCompressed)
    /\ encToken' = encChars
    /\ encPc' = "returned"
    /\ UNCHANGED <<encText, encCompressed, encI, encChars, encCalls, encPrev>>
    /\ UNCHANGED <<pathVars, fldVars, rulesVars, cfgVars, regVars, crVars, idVars, phVars, setupVars, genVars, reqVars, docVars, trVars, rdVars, chVars, edVars>>

NextEncode ==
    \/ PlantumlEncodeCall
    \/ PlantumlEncodeGroup
    \/ PlantumlEncodeReturn

SpecEncode == Init /\ [][NextEncode]_vars

UrlSafe == Digits \cup Uppercase \cup Lowercase \cup {"-", "_"}

\* C20: encode is deterministic and URL-safe: a call on the text of the
\* previous call returns the token the previous call returned, and every
\* character of every token (and of the characters collected so far) is one
\* of 0-9, A-Z, a-z, '-', '_'; no padding character is emitted.
C20_DeterministicUrlSafe ==
    /\ \A k \in 1..Len(encChars) : encChars[k] \in UrlSafe
    /\ encPc = "returned" =>
          /\ \A k \in 1..Len(encToken) : encToken[k] \in UrlSafe
          /\ encPrev # NoCall /\ encPrev.text = encText => encToken = encPrev.token

\* A second call on the same text returned the same token, whose last group
\* is a partial one.
C20_SecondCallSameToken ==
    /\ encPc = "returned"
    /\ encPrev # NoCall
    /\ encPrev.text = encText
    /\ encToken = encPrev.token
    /\ Len(encCompressed) % 3 # 0
    /\ Len(encToken) % 4 # 0

\* The token of the text "a" is the one the program returns for it.
C20_TokenOfA == encPc = "returned" /\ encText = <<97>> /\ encToken = <<"I", "m", "G", "0">>

----------------------------------------------------------------------------
(* The transcoding loop of _plantuml_encode on any compressed byte         *)
(* sequence: the compressor's output is an arbitrary sequence of bytes.    *)

ByteValues == {0, 3, 75, 128, 255}

CompressedInputs == SeqsUpTo(ByteValues, MaxBytes)

\* compressed = ...; encoded_chars = []
TranscodeStart ==
    /\ trPc = "idle"
    /\ trCompressed' \in CompressedInputs
    /\ trI' = 0
    /\ trChars' = <<>>
    /\ trToken' = <<>>
    /\ trPc' = "loop"
    /\ UNCHANGED <<pathVars, fldVars, rulesVars, cfgVars, regVars, crVars, idVars, phVars, setupVars, genVars, reqVars, docVars, encVars, rdVars, chVars, edVars>>

\* for i in range(0, len(compressed), 3)
TranscodeGroup ==
    /\ trPc = "loop"
    /\ trI < Len(trCompressed)
    /\ trChars' = trChars \o EncodeGroup(trCompressed, trI)
    /\ trI' = trI + 3
    /\ UNCHANGED <<trPc, trCompressed, trToken>>
    /\ UNCHANGED <<pathVars, fldVars, rulesVars, cfgVars, regVars, crVars, idVars, phVars, setupVars, genVars, reqVars, docVars, encVars, rdVars, chVars, edVars>>

\* return "".join(encoded_chars)
TranscodeReturn ==
    /\ trPc = "loop"
    /\ trI >= Len(trCompressed)
    /\ trToken' = trChars
    /\ trPc' = "returned"
    /\ UNCHANGED <<trCompressed, trI, trChars>>
    /\ UNCHANGED <<pathVars, fldVars, rulesVars, cfgVars, regVars, crVars, idVars, phVars, setupVars, genVars, reqVars, docVars, encVars, rdVars, chVars, edVars>>

NextTranscode ==
    \/ TranscodeStart
    \/ TranscodeGroup
    \/ TranscodeReturn

SpecTranscode == Init /\ [][NextTranscode]_vars

\* The bits of a byte sequence, each byte most significant bit first.
RECURSIVE ByteBits(_)
ByteBits(data) ==
    IF data = <<>> THEN <<>> ELSE Bits(Head(data), 8) \o ByteBits(Tail(data))

\* The six bits of the alphabet position (from 0) of a character.
CharBits(c) == Bits((CHOOSE k \in 1..Len(alphabet) : alphabet[k] = c) - 1, 6)

RECURSIVE TokenBits(_)
TokenBits(token) ==
    IF token = <<>> THEN <<>> ELSE CharBits(Head(token)) \o TokenBits(Tail(token))

\* The number of characters n bytes yield.
TokenLength(n) ==
    4 * (n \div 3) + (CASE n % 3 = 0 -> 0 [] n % 3 = 1 -> 2 [] n % 3 = 2 -> 3)

\* C21: the transcoding follows the bit layout for every byte sequence: read
\* as six bits per character, the token is the bit string of the bytes (most
\* significant bit first), continued with zero bits up to the end of its
\* last character, and n bytes yield 4*floor(n/3) characters plus 0, 2 or 3
\* for n mod 3 = 0, 1, 2.
C21_BitLayout ==
    trPc = "returned" =>
        LET n == Len(trCompressed)
            bits == ByteBits(trCompressed)
            out == TokenBits(trToken)
        IN /\ Len(trToken) = TokenLength(n)
           /\ \A k \in 1..Len(trToken) : trToken[k] \in Range(alphabet)
           /\ Len(out) >= Len(bits)
           /\ SubSeq(out, 1, Len(bits)) = bits
           /\ \A k \in (Len(bits) + 1)..Len(out) : out[k] = 0

\* A sequence with one full group and a partial group of two bytes was
\* transcoded into seven characters.
C21_PartialGroupOfTwo ==
    /\ trPc = "returned"
    /\ Len(trCompressed) = 5
    /\ Len(trToken) = 7
    /\ trCompressed[5] # 0

----------------------------------------------------------------------------
(* render_puml_to_svg of the generated documentation builder: one request  *)
(* to the PlantUML server, and the text view of the source when the        *)
(* request or the source is not usable.  The source is None or a string,   *)
(* here a sequence of code points.                                         *)

\* The loop of _plantuml_encode from byte offset i on.
RECURSIVE Transcode(_, _)
Transcode(compressed, i) ==
    IF i >= Len(compressed) THEN <<>>
    ELSE EncodeGroup(compressed, i) \o Transcode(compressed, i + 3)

_plantuml_encode(puml_text) == Transcode(Deflate(utf8(puml_text)), 0)

\* The code points str.strip() removes (those below 256).
PyWhitespace == {9, 10, 11, 12, 13, 28, 29, 30, 31, 32, 133, 160}

\* not isinstance(puml_text, str) or not puml_text.strip()
SourceInvalid(puml_text) ==
    \/ puml_text.t # "str"
    \/ \A k \in 1..Len(puml_text.v) : puml_text.v[k] \in PyWhitespace

\* sub in s
Contains(s, sub) ==
    \E k \in 0..(Len(s) - Len(sub)) : SubSeq(s, k + 1, k + Len(sub)) = sub

\* Mutant: the body is not searched for the marker.
ResponseUsable_status_only(response) ==
    response.status_code = 200

\* response.status_code == 200 and '<svg' in response.text
ResponseUsable(response) ==
    response.status_code = 200 /\ Contains(response.text, <<"<", "s", "v", "g">>)

\* The text view of the source, with the reason it is shown.
Fallback(puml_text, error) ==
    [kind |-> "fallback", source |-> puml_text, error |-> error]

SourceInputs == {JStr(text) : text \in TextInputs} \cup {JNull}

StatusCodes == {200, 204, 404, 500}

Bodies == {<<"<", "s", "v", "g", "/", ">">>, <<"x", "<", "s", "v", "g">>, <<"<", "s", "v">>, <<>>}

\* What requests.get does: it raises, or it returns a response.
RequestOutcomes ==
    {[kind |-> "raised", error |-> e] : e \in {"Timeout", "ConnectionError"}}
    \cup {[kind |-> "response", status_code |-> c, text |-> b] :
             c \in StatusCodes, b \in Bodies}

\* The call; an empty or invalid source raises ValueError inside the try.
RenderCall ==
    /\ rdPc = "idle"
    /\ \E puml_text \in SourceInputs :
        /\ rdText' = puml_text
        /\ IF SourceInvalid(puml_text)
           THEN /\ rdPc' = "except"
                /\ rdResponse' = [kind |-> "raised", error |-> "ValueError"]
                /\ UNCHANGED rdUrl
           ELSE /\ rdPc' = "request"
                /\ rdUrl' = _plantuml_encode(puml_text.v)
                /\ UNCHANGED rdResponse
    /\ UNCHANGED <<rdRequests, rdOut>>
    /\ UNCHANGED <<pathVars, fldVars, rulesVars, cfgVars, regVars, crVars, idVars, phVars, setupVars, genVars, reqVars, docVars, encVars, trVars, chVars, edVars>>

\* response = requests.get(url, timeout=10)
RenderRequest ==
    /\ rdPc = "request"
    /\ rdRequests' = rdRequests + 1
    /\ \E outcome \in RequestOutcomes :
        /\ rdResponse' = outcome
        /\ rdPc' = IF outcome.kind = "raised" THEN "except" ELSE "responded"
    /\ UNCHANGED <<rdText, rdUrl, rdOut>>
    /\ UNCHANGED <<pathVars, fldVars, rulesVars, cfgVars, regVars, crVars, idVars, phVars, setupVars, genVars, reqVars, docVars, encVars, trVars, chVars, edVars>>

\* The body is returned, or the text view after a warning.
RenderRespond ==
    /\ rdPc = "responded"
    /\ rdOut' = IF ResponseUsable(rdResponse)
                THEN [kind |-> "svg", text |-> rdResponse.text]
                ELSE Fallback(rdText, "UnableToRender")
    /\ rdPc' = "returned"
    /\ UNCHANGED <<rdText, rdUrl, rdRequests, rdResponse>>
    /\ UNCHANGED <<pathVars, fldVars, rulesVars, cfgVars, regVars, crVars, idVars, phVars, setupVars, genVars, reqVars, docVars, encVars, trVars, chVars, edVars>>

\* except Exception as e: the text view with the error.
RenderExcept ==
    /\ rdPc = "except"
    /\ rdOut' = Fallback(rdText, rdResponse.error)
    /\ rdPc' = "returned"
    /\ UNCHANGED <<rdText, rdUrl, rdRequests, rdResponse>>
    /\ UNCHANGED <<pathVars, fldVars, rulesVars, cfgVars, regVars, crVars, idVars, phVars, setupVars, genVars, reqVars, docVars, encVars, trVars, chVars, edVars>>

NextRender ==
    \/ RenderCall
    \/ RenderRequest
    \/ RenderRespond
    \/ RenderExcept

SpecRender == Init /\ [][NextRender]_vars

\* The response is successful (2xx) and its body holds the SVG marker.
SuccessfulWithMarker(response) ==
    /\ response.kind = "response"
    /\ response.status_code \in 200..299
    /\ \E k \in 1..Len(response.text) :
          /\ k + 3 <= Len(response.text)
          /\ response.text[k] = "<"
          /\ response.text[k + 1] = "s"
          /\ response.text[k + 2] = "v"
          /\ response.text[k + 3] = "g"

\* The source is no text to render: not a string, or empty.
EmptySource(puml_text) == puml_text.t # "str" \/ puml_text.v = <<>>

\* C22: rendering degrades instead of failing: at most one request is made;
\* the call always reaches its return (every exception ends in the text
\* view); the server body is returned only for a successful response that
\* holds the marker; and on a request error, a non-2xx status, a body
\* without the marker or an empty source the text view of the source is
\* returned.
C22_RenderDegrades ==
    /\ rdRequests <= 1
    /\ rdPc \in {"idle", "request", "responded", "except", "returned"}
    /\ rdPc = "returned" =>
          /\ rdOut.kind \in {"svg", "fallback"}
          /\ rdOut.kind = "svg" =>
                SuccessfulWithMarker(rdResponse) /\ rdOut.text = rdResponse.text
          /\ \/ EmptySource(rdText)
             \/ ~SuccessfulWithMarker(rdResponse)
             => rdOut.kind = "fallback" /\ rdOut.source = rdText
          /\ EmptySource(rdText) => rdRequests = 0

\* A response with status 200 but without the marker ended in the text view
\* after a single request.
C22_NoMarkerFallsBack ==
    /\ rdPc = "returned"
    /\ rdRequests = 1
    /\ rdResponse.kind = "response"
    /\ rdResponse.status_code = 200
    /\ ~SuccessfulWithMarker(rdResponse)
    /\ rdOut.kind = "fallback"

\* The positions of the entries that carry the identifier.
Carrying(entries, config_id) ==
    {i \in 1..Len(entries) :
        Strip(PyStr(Get(entries[i], "id", JStr(<<>>)))) = config_id}

\* The entry a creator run registers.
RegisteredEntry ==
    JDict([id |-> JStr(crId), scope |-> JStr(S_user_generated),
           path |-> JStr(S_user_generated \o S_slash \o crId \o S_json)])

\* The upsert of a run appended, replaced in place or failed as C23 says.
UpsertFrame ==
    LET carrying == Carrying(crEntries, crId)
    IN /\ carrying = {} =>
             crPc' = "upserted" /\ crEntries' = Append(crEntries, RegisteredEntry)
       /\ (/\ carrying # {}
           /\ \A i \in carrying : ExistingScope(crEntries[i]) # S_owner) =>
             \/ /\ crPc' = "upserted"
                /\ Len(crEntries') = Len(crEntries)
                /\ \E i \in carrying :
                      /\ crEntries'[i] = RegisteredEntry
                      /\ \A j \in 1..Len(crEntries) : j # i => crEntries'[j] = crEntries[j]
             \/ /\ crPc' = "exited"
                /\ crError'.kind = "Cancelled by user"
                /\ crEntries' = crEntries

\* C23: a registry upsert appends exactly one entry when no entry carries
\* the identifier; replaces the entry at its position, or fails and leaves
\* the list unchanged when the confirmation is declined, when an entry
\* carries it without owner conflict; and after any call at most one entry
\* carries the identifier.
C23_UpsertFrameUnique ==
    [][ (crPc = "prepared" /\ crPc' # "prepared") =>
            /\ UpsertFrame
            /\ Cardinality(Carrying(crEntries', crId)) <= 1
      ]_vars

\* The append and replace clauses of C23 on their own, and uniqueness after
\* the call for a list whose identifiers were unique before it.
C23_UpsertFrameOnly ==
    [][ (crPc = "prepared" /\ crPc' # "prepared") =>
            /\ UpsertFrame
            /\ UniqueIds(crEntries) => Cardinality(Carrying(crEntries', crId)) <= 1
      ]_vars

\* The order C24 states for two loaded configurations: owner scope before
\* user_generated, then the lower-cased name.
LoadedBefore(c1, c2) ==
    \/ c1._scope = S_owner /\ c2._scope # S_owner
    \/ /\ (c1._scope = S_owner) = (c2._scope = S_owner)
       /\ StrLess(Lower(c1.config.name), Lower(c2.config.name))

\* C24: the list a successful load returns is sorted, owner configurations
\* before user_generated ones and by case-insensitive name within a scope,
\* whatever the order of the index entries.
C24_LoadSorted ==
    (regPc = "loaded" /\ ~regOut.exited) =>
        \A i, j \in 1..Len(regOut.value) :
            i < j => ~LoadedBefore(regOut.value[j], regOut.value[i])


\* The configurations field of the loaded index document.
IndexEntries == Get(regIndex, "configurations", Missing)

\* C25 as stated: an index whose configurations field is missing, not a list
\* or an empty list fails to load and returns no configurations.
C25_NonEmptyRequired ==
    (regPc = "loaded" /\ (IndexEntries.t # "list" \/ IndexEntries.v = <<>>)) =>
        regOut.exited /\ regOut.value = NoValue

\* C25, amended: an index whose configurations field is missing or not a
\* list fails to load and returns no configurations; an index whose
\* configurations field is an empty list loads and returns an empty list of
\* configurations.
C25_ListRequired ==
    regPc = "loaded" =>
        /\ IndexEntries.t # "list" =>
              /\ regOut.exited
              /\ regOut.value = NoValue
              /\ regOut.error.kind # "none"
        /\ (IndexEntries.t = "list" /\ IndexEntries.v = <<>>) =>
              /\ ~regOut.exited
              /\ regOut.value = <<>>
              /\ regOut.error = NoError

\* The index ensure_layout created, with its empty list, was loaded.
C25_EmptyIndexLoaded ==
    /\ regPc = "loaded"
    /\ "description" \in DOMAIN regIndex.v
    /\ IndexEntries = JList(<<>>)
    /\ ~regOut.exited

----------------------------------------------------------------------------
(* The executable files of a new project: create_scripts,                  *)
(* create_docs_builder_script and create_env_bootstrap_script write each   *)
(* file and then mark it executable.  A permission mode is a number in     *)
(* 0..511; the umask of the process is the environment's choice.           *)

\* a & b and a | b on naturals
RECURSIVE BitAnd(_, _)
BitAnd(a, b) ==
    IF a = 0 \/ b = 0 THEN 0
    ELSE ((a % 2) * (b % 2)) + 2 * BitAnd(a \div 2, b \div 2)

RECURSIVE BitOr(_, _)
BitOr(a, b) ==
    IF a = 0 THEN b
    ELSE IF b = 0 THEN a
    ELSE (IF a % 2 = 1 \/ b % 2 = 1 THEN 1 ELSE 0) + 2 * BitOr(a \div 2, b \div 2)

\* 0o666, the mode open() asks for when it creates a file.
CreateMode == 438

\* 0o755
ExecutableMode == 493

\* The executable files in the order main writes them.
ExecutableFiles ==
    <<<<"s", "e", "t", "u", "p", ".", "s", "h">>, <<"s", "t", "a", "r", "t", ".", "s", "h">>, <<"A", "u", "t", "o", "m", "a", "t", "i", "o", "n", "/", "d", "o", "c", "s", "_", "b", "u", "i", "l", "d", "e", "r", ".", "p", "y">>,
      <<"A", "u", "t", "o", "m", "a", "t", "i", "o", "n", "/", "b", "o", "o", "t", "s", "t", "r", "a", "p", "_", "e", "n", "v", "s", ".", "s", "h">>>>

Umasks == 0..511

\* The mode of a file write_text creates in the new project directory.
CreatedMode(umask) == BitAnd(CreateMode, 511 - umask)

\* path.chmod(0o755): the mode after the call.
chmod_755(mode) == ExecutableMode

\* main runs in a process with some umask.
ScriptsStart ==
    /\ chPc = "idle"
    /\ chUmask' \in Umasks
    /\ chStep' = 1
    /\ chModes' = <<>>
    /\ chPc' = "write"
    /\ UNCHANGED <<pathVars, fldVars, rulesVars, cfgVars, regVars, crVars, idVars, phVars, setupVars, genVars, reqVars, docVars, encVars, trVars, rdVars, edVars>>

\* write_text creates the file.
WriteScript ==
    /\ chPc = "write"
    /\ chStep <= Len(ExecutableFiles)
    /\ chModes' = Append(chModes, CreatedMode(chUmask))
    /\ chPc' = "chmod"
    /\ UNCHANGED <<chUmask, chStep>>
    /\ UNCHANGED <<pathVars, fldVars, rulesVars, cfgVars, regVars, crVars, idVars, phVars, setupVars, genVars, reqVars, docVars, encVars, trVars, rdVars, edVars>>

\* chmod(0o755) marks it executable.
MarkExecutable ==
    /\ chPc = "chmod"
    /\ chModes' = [chModes EXCEPT ![chStep] = chmod_755(chModes[chStep])]
    /\ chStep' = chStep + 1
    /\ chPc' = IF chStep = Len(ExecutableFiles) THEN "done" ELSE "write"
    /\ UNCHANGED chUmask
    /\ UNCHANGED <<pathVars, fldVars, rulesVars, cfgVars, regVars, crVars, idVars, phVars, setupVars, genVars, reqVars, docVars, encVars, trVars, rdVars, edVars>>

NextScripts ==
    \/ ScriptsStart
    \/ WriteScript
    \/ MarkExecutable

SpecScripts == Init /\ [][NextScripts]_vars

\* C26: marking a file executable only adds permission bits: the mode after
\* the step is the mode before it OR the execute bits (0o111), so no bit
\* that was set is cleared.
C26_OnlyAddsBits ==
    [][ chPc = "chmod" =>
           /\ chModes'[chStep] = BitOr(chModes[chStep], 64 + 8 + 1)
           /\ BitAnd(chModes'[chStep], chModes[chStep]) = chModes[chStep]
      ]_vars

\* A safe relative path, character by character: not empty, no backslash,
\* no '/' at either end, no '~' in front, no segment equal to '..'.
SafeRelativePath(p) ==
    /\ p # <<>>
    /\ \A i \in 1..Len(p) : p[i] # "\\"
    /\ p[1] # "/"
    /\ p[Len(p)] # "/"
    /\ p[1] # "~"
    /\ ~\E i \in 1..(Len(p) - 1) :
          /\ p[i] = "." /\ p[i + 1] = "."
          /\ (i = 1 \/ p[i - 1] = "/")
          /\ (i + 1 = Len(p) \/ p[i + 2] = "/")

\* C27: every path normalize_relative_path returns is a safe relative path,
\* and so is every folder and the runtime.docs_venv_path of an accepted
\* configuration.
C27_ReturnedPathsSafe ==
    /\ (pathPc # "idle" /\ ~pathOut.exited) => SafeRelativePath(pathOut.value)
    /\ (pathPc = "renormalized" /\ ~pathOut2.exited) => SafeRelativePath(pathOut2.value)
    /\ (fldPc = "normalized" /\ ~fldOut.exited) =>
          \A i \in 1..Len(fldOut.value) : SafeRelativePath(fldOut.value[i])
    /\ (cfgPc = "normalized" /\ ~cfgOut.exited) =>
          /\ \A i \in 1..Len(cfgOut.value.folders) :
                SafeRelativePath(cfgOut.value.folders[i])
          /\ SafeRelativePath(cfgOut.value.runtime.docs_venv_path)

\* A configuration was accepted whose folder and docs_venv_path were given
\* with a trailing slash.
C27_SlashesStripped ==
    /\ cfgPc = "normalized"
    /\ ~cfgOut.exited
    /\ Get(cfgRaw, "folders", JNull) = JList(<<JStr(<<"a", "/">>)>>)
    /\ cfgOut.value.folders = <<(<<"a">>)>>
    /\ Get(Get(cfgRaw, "runtime", JDict(<<>>)), "docs_venv_path", JNull)
          = JStr(<<" ", "v", "/">>)
    /\ cfgOut.value.runtime.docs_venv_path = <<"v">>

----------------------------------------------------------------------------
(* The file-rule operations of the interactive editor: the menu loop of    *)
(* edit_payload_interactive calls add_file_rule, edit_file_rule,           *)
(* toggle_file_rule and remove_file_rule on payload['files'].  What the    *)
(* user types is the environment's choice; fail() ends the process.        *)

\* A rule of payload['files'] as the object normalize_file_rule reads.
RuleObject(rule) ==
    JDict([id |-> JStr(rule.id),
           source |-> JStr(rule.source),
           target |-> JStr(rule.target),
           enabled |-> JBool(rule.enabled),
           executable |-> JBool(rule.executable),
           post_process |-> JStr(rule.post_process)])

\* any(rule["id"] == rule_id for rule in payload["files"])
IdExists(files, rule_id) == \E i \in 1..Len(files) : files[i].id = rule_id

\* add_file_rule with the answers typed at its prompts: the new value of
\* payload['files'], or the exit of the process.
add_file_rule(files, typed_id, typed_source, typed_target, enabled) ==
    LET raw_id == Strip(typed_id)
        rule_id == IF raw_id # <<>> THEN normalize_config_id(raw_id)
                   ELSE S_rule_ \o Decimal(Len(files) + 1)
        source == Strip(typed_source)
        target == Strip(typed_target)
    IN IF IdExists(files, rule_id) THEN Return(files)
       ELSE IF source = <<>> \/ target = <<>> THEN Return(files)
       ELSE
       LET rule == normalize_file_rule(
                       JDict([id |-> JStr(rule_id),
                              source |-> JStr(source),
                              target |-> JStr(target),
                              enabled |-> JBool(enabled),
                              executable |-> JBool(FALSE),
                              post_process |-> JStr(S_none)]),
                       Len(files))
       IN IF rule.exited THEN rule
          ELSE Return(Append(files, rule.value))

\* edit_file_rule on the rule at a picked index (zero-based, as pick_index
\* returns it) with the answers typed at its prompts.
edit_file_rule(files, index, new_source, new_target, enabled) ==
    LET old == files[index + 1]
        edited == [old EXCEPT
                      !.source = IF Strip(new_source) # <<>>
                                 THEN Strip(new_source) ELSE old.source,
                      !.target = IF Strip(new_target) # <<>>
                                 THEN Strip(new_target) ELSE old.target,
                      !.enabled = enabled]
        rule == normalize_file_rule(RuleObject(edited), index)
    IN IF rule.exited THEN rule
       ELSE normalize_files(
                JList([i \in 1..Len(files) |->
                          IF i = index + 1 THEN RuleObject(rule.value)
                          ELSE RuleObject(files[i])]))

\* toggle_file_rule on the rule at a picked index
toggle_file_rule(files, index) ==
    [files EXCEPT ![index + 1].enabled = ~files[index + 1].enabled]

\* remove_file_rule: payload["files"].pop(index)
remove_file_rule(files, index) ==
    [i \in 1..(Len(files) - 1) |-> IF i <= index THEN files[i] ELSE files[i + 1]]

FileRule(rule_id) ==
    [id |-> rule_id, source |-> <<"s">>, target |-> <<"t">>,
     enabled |-> TRUE, executable |-> FALSE, post_process |-> S_none]

\* Payloads the editor starts from: normalized file rules with pairwise
\* distinct identifiers.
EditorPayloads ==
    { <<>>,
      <<FileRule(<<"r">>)>>,
      <<FileRule(<<"r", "u", "l", "e", "_", "2">>)>>,
      <<FileRule(<<"r">>), FileRule(<<"r", "u", "l", "e", "_", "1">>)>> }

\* What the user types at the 'Rule id' prompt.
TypedIds == { <<>>, <<" ">>, <<"r">>, <<"R">>, <<"!">>, <<"_">>, <<"r", "u", "l", "e", "_", "2">> }

\* What the user types at a source or target prompt.
TypedPaths == { <<>>, <<"x">>, <<"{", "x", "}">> }

\* pick_index: an index in range, or None (nothing happens).
PickedIndexes(files) == 0..(Len(files) - 1)

EditorStart ==
    /\ edPc = "idle"
    /\ edFiles' \in EditorPayloads
    /\ edOps' = 0
    /\ edPc' = "menu"
    /\ UNCHANGED <<pathVars, fldVars, rulesVars, cfgVars, regVars, crVars, idVars, phVars, setupVars, genVars, reqVars, docVars, encVars, trVars, rdVars, chVars>>

\* The outcome of one operation: the new payload['files'], or the exit.
EditorApply(outcome) ==
    /\ edOps' = edOps + 1
    /\ IF outcome.exited
       THEN edPc' = "exited" /\ edFiles' = edFiles
       ELSE edPc' = "menu" /\ edFiles' = outcome.value

AddFileRule ==
    /\ edPc = "menu"
    /\ edOps < MaxOps
    /\ \E typed_id \in TypedIds, typed_source \in TypedPaths, enabled \in BOOLEAN :
          EditorApply(add_file_rule(edFiles, typed_id, typed_source, <<"t">>, enabled))
    /\ UNCHANGED <<pathVars, fldVars, rulesVars, cfgVars, regVars, crVars, idVars, phVars, setupVars, genVars, reqVars, docVars, encVars, trVars, rdVars, chVars>>

EditFileRule ==
    /\ edPc = "menu"
    /\ edOps < MaxOps
    /\ \E index \in PickedIndexes(edFiles), new_source \in TypedPaths :
          EditorApply(edit_file_rule(edFiles, index, new_source, <<>>,
                                     edFiles[index + 1].enabled))
    /\ UNCHANGED <<pathVars, fldVars, rulesVars, cfgVars, regVars, crVars, idVars, phVars, setupVars, genVars, reqVars, docVars, encVars, trVars, rdVars, chVars>>

ToggleFileRule ==
    /\ edPc = "menu"
    /\ edOps < MaxOps
    /\ \E index \in PickedIndexes(edFiles) :
          EditorApply(Return(toggle_file_rule(edFiles, index)))
    /\ UNCHANGED <<pathVars, fldVars, rulesVars, cfgVars, regVars, crVars, idVars, phVars, setupVars, genVars, reqVars, docVars, encVars, trVars, rdVars, chVars>>

RemoveFileRule ==
    /\ edPc = "menu"
    /\ edOps < MaxOps
    /\ \E index \in PickedIndexes(edFiles) :
          EditorApply(Return(remove_file_rule(edFiles, index)))
    /\ UNCHANGED <<pathVars, fldVars, rulesVars, cfgVars, regVars, crVars, idVars, phVars, setupVars, genVars, reqVars, docVars, encVars, trVars, rdVars, chVars>>

NextEditor ==
    \/ EditorStart
    \/ AddFileRule
    \/ EditFileRule
    \/ ToggleFileRule
    \/ RemoveFileRule

SpecEditor == Init /\ [][NextEditor]_vars

\* C28: in the interactive editor the identifiers of payload['files'] stay
\* pairwise distinct after any sequence of add, edit, toggle and remove
\* operations, whatever rule id the user types.
C28_RuleIdsDistinct ==
    edPc = "menu" =>
        \A i, j \in 1..Len(edFiles) : i # j => edFiles[i].id # edFiles[j].id

\* The files written so far by the run, in order.
WrittenFiles(writes) == [i \in 1..Len(writes) |-> writes[i].file]

\* The files a run has written when it stands at a position: none before
\* the normalization and the upsert have succeeded and none when the run
\* has exited, then the configuration file, then the index.
WritesAllowedAt(pc, config_id) ==
    CASE pc = "config_written" ->
            <<S_user_generated \o S_slash \o config_id \o S_json>>
      [] pc = "done" ->
            <<S_user_generated \o S_slash \o config_id \o S_json, INDEX_FILE>>
      [] OTHER -> <<>>

\* C29 as stated: the configuration file and the index are written only
\* after the normalization and the upsert have succeeded, the configuration
\* file first; a run that fails (normalization, OwnerConflict, declined
\* overwrite) has written neither file.
C29_WritesOnlyAfterSuccess ==
    crPc # "idle" => WrittenFiles(crWrites) = WritesAllowedAt(crPc, crId)

\* The write ensure_layout makes when the run finds no index file: the
\* index is created with an empty list of configurations.
IsLayoutWrite(write) ==
    write.file = INDEX_FILE /\ write.created /\ write.content = <<>>

\* The writes of the run without a leading write of ensure_layout.
WritesAfterLayout(writes) ==
    IF writes # <<>> /\ IsLayoutWrite(writes[1]) THEN Tail(writes) ELSE writes

\* C29 (amended): apart from the empty index a run creates at its start when
\* no index file exists, the configuration file and the index are written
\* only after the normalization and the upsert have succeeded, the
\* configuration file first; a run that fails has neither created or
\* modified the configuration file nor modified an existing index.
C29_WritesOnlyAfterSuccessOrLayout ==
    crPc # "idle" =>
        WrittenFiles(WritesAfterLayout(crWrites)) = WritesAllowedAt(crPc, crId)

\* A run that found no index file failed after creating the empty index.
C29_FailedRunCreatedIndex ==
    /\ crPc = "exited"
    /\ crWrites # <<>>
    /\ IsLayoutWrite(crWrites[1])

\* A run went through: the configuration file, then the index.
C29_RunWroteBoth ==
    /\ crPc = "done"
    /\ Len(WritesAfterLayout(crWrites)) = 2
    /\ indexFile # <<>>

\* A location inside the project directory.
InsideProject(location) ==
    location = <<>> \/ location[1] \notin {"..", "/"}

\* C30: folder creation is confined to the project root: every directory
\* and every .gitkeep the base-structure step creates lies inside the new
\* project directory, whatever component names the user gave.
C30_CreationConfined ==
    setupPc # "idle" =>
        /\ \A d \in setupDirs : InsideProject(d)
        /\ \A f \in setupFiles : InsideProject(f)

----------------------------------------------------------------------------
(* The whole program: one process run exercises one of the operations.     *)

Next ==
    \/ /\ FoldersIdle /\ RulesIdle /\ CfgIdle /\ RegistryIdle
       /\ CreatorIdle /\ IdentifierIdle /\ PlaceholderIdle /\ SetupIdle
       /\ GenerateIdle /\ RequirementsIdle /\ BuildDocsIdle /\ EncodeIdle
       /\ TranscodeIdle /\ RenderIdle /\ ScriptsIdle /\ EditorIdle
       /\ NextPath
    \/ /\ PathIdle /\ RulesIdle /\ CfgIdle /\ RegistryIdle
       /\ CreatorIdle /\ IdentifierIdle /\ PlaceholderIdle /\ SetupIdle
       /\ GenerateIdle /\ RequirementsIdle /\ BuildDocsIdle /\ EncodeIdle
       /\ TranscodeIdle /\ RenderIdle /\ ScriptsIdle /\ EditorIdle
       /\ NextFolders
    \/ /\ PathIdle /\ FoldersIdle /\ CfgIdle /\ RegistryIdle
       /\ CreatorIdle /\ IdentifierIdle /\ PlaceholderIdle /\ SetupIdle
       /\ GenerateIdle /\ RequirementsIdle /\ BuildDocsIdle /\ EncodeIdle
       /\ TranscodeIdle /\ RenderIdle /\ ScriptsIdle /\ EditorIdle
       /\ NextRules
    \/ /\ PathIdle /\ FoldersIdle /\ RulesIdle /\ RegistryIdle
       /\ CreatorIdle /\ IdentifierIdle /\ PlaceholderIdle /\ SetupIdle
       /\ GenerateIdle /\ RequirementsIdle /\ BuildDocsIdle /\ EncodeIdle
       /\ TranscodeIdle /\ RenderIdle /\ ScriptsIdle /\ EditorIdle
       /\ NextConfig
    \/ /\ PathIdle /\ FoldersIdle /\ RulesIdle /\ CfgIdle
       /\ CreatorIdle /\ IdentifierIdle /\ PlaceholderIdle /\ SetupIdle
       /\ GenerateIdle /\ RequirementsIdle /\ BuildDocsIdle /\ EncodeIdle
       /\ TranscodeIdle /\ RenderIdle /\ ScriptsIdle /\ EditorIdle
       /\ NextRegistry
    \/ /\ PathIdle /\ FoldersIdle /\ RulesIdle /\ CfgIdle
       /\ RegistryIdle /\ IdentifierIdle /\ PlaceholderIdle /\ SetupIdle
       /\ GenerateIdle /\ RequirementsIdle /\ BuildDocsIdle /\ EncodeIdle
       /\ TranscodeIdle /\ RenderIdle /\ ScriptsIdle /\ EditorIdle
       /\ NextCreator
    \/ /\ PathIdle /\ FoldersIdle /\ RulesIdle /\ CfgIdle
       /\ RegistryIdle /\ CreatorIdle /\ PlaceholderIdle /\ SetupIdle
       /\ GenerateIdle /\ RequirementsIdle /\ BuildDocsIdle /\ EncodeIdle
       /\ TranscodeIdle /\ RenderIdle /\ ScriptsIdle /\ EditorIdle
       /\ NextIdentifier
    \/ /\ PathIdle /\ FoldersIdle /\ RulesIdle /\ CfgIdle
       /\ RegistryIdle /\ CreatorIdle /\ IdentifierIdle /\ SetupIdle
       /\ GenerateIdle /\ RequirementsIdle /\ BuildDocsIdle /\ EncodeIdle
       /\ TranscodeIdle /\ RenderIdle /\ ScriptsIdle /\ EditorIdle
       /\ NextPlaceholder
    \/ /\ PathIdle /\ FoldersIdle /\ RulesIdle /\ CfgIdle
       /\ RegistryIdle /\ CreatorIdle /\ IdentifierIdle /\ PlaceholderIdle
       /\ GenerateIdle /\ RequirementsIdle /\ BuildDocsIdle /\ EncodeIdle
       /\ TranscodeIdle /\ RenderIdle /\ ScriptsIdle /\ EditorIdle
       /\ NextSetup
    \/ /\ PathIdle /\ FoldersIdle /\ RulesIdle /\ CfgIdle
       /\ RegistryIdle /\ CreatorIdle /\ IdentifierIdle /\ PlaceholderIdle
       /\ SetupIdle /\ RequirementsIdle /\ BuildDocsIdle /\ EncodeIdle
       /\ TranscodeIdle /\ RenderIdle /\ ScriptsIdle /\ EditorIdle
       /\ NextGenerate
    \/ /\ PathIdle /\ FoldersIdle /\ RulesIdle /\ CfgIdle
       /\ RegistryIdle /\ CreatorIdle /\ IdentifierIdle /\ PlaceholderIdle
       /\ SetupIdle /\ GenerateIdle /\ BuildDocsIdle /\ EncodeIdle
       /\ TranscodeIdle /\ RenderIdle /\ ScriptsIdle /\ EditorIdle
       /\ NextRequirements
    \/ /\ PathIdle /\ FoldersIdle /\ RulesIdle /\ CfgIdle
       /\ RegistryIdle /\ CreatorIdle /\ IdentifierIdle /\ PlaceholderIdle
       /\ SetupIdle /\ GenerateIdle /\ RequirementsIdle /\ EncodeIdle
       /\ TranscodeIdle /\ RenderIdle /\ ScriptsIdle /\ EditorIdle
       /\ NextBuildDocs
    \/ /\ PathIdle /\ FoldersIdle /\ RulesIdle /\ CfgIdle
       /\ RegistryIdle /\ CreatorIdle /\ IdentifierIdle /\ PlaceholderIdle
       /\ SetupIdle /\ GenerateIdle /\ RequirementsIdle /\ BuildDocsIdle
       /\ TranscodeIdle /\ RenderIdle /\ ScriptsIdle /\ EditorIdle
       /\ NextEncode
    \/ /\ PathIdle /\ FoldersIdle /\ RulesIdle /\ CfgIdle
       /\ RegistryIdle /\ CreatorIdle /\ IdentifierIdle /\ PlaceholderIdle
       /\ SetupIdle /\ GenerateIdle /\ RequirementsIdle /\ BuildDocsIdle
       /\ EncodeIdle /\ RenderIdle /\ ScriptsIdle /\ EditorIdle
       /\ NextTranscode
    \/ /\ PathIdle /\ FoldersIdle /\ RulesIdle /\ CfgIdle
       /\ RegistryIdle /\ CreatorIdle /\ IdentifierIdle /\ PlaceholderIdle
       /\ SetupIdle /\ GenerateIdle /\ RequirementsIdle /\ BuildDocsIdle
       /\ EncodeIdle /\ TranscodeIdle /\ ScriptsIdle /\ EditorIdle
       /\ NextRender
    \/ /\ PathIdle /\ FoldersIdle /\ RulesIdle /\ CfgIdle
       /\ RegistryIdle /\ CreatorIdle /\ IdentifierIdle /\ PlaceholderIdle
       /\ SetupIdle /\ GenerateIdle /\ RequirementsIdle /\ BuildDocsIdle
       /\ EncodeIdle /\ TranscodeIdle /\ RenderIdle /\ EditorIdle
       /\ NextScripts
    \/ /\ PathIdle /\ FoldersIdle /\ RulesIdle /\ CfgIdle
       /\ RegistryIdle /\ CreatorIdle /\ IdentifierIdle /\ PlaceholderIdle
       /\ SetupIdle /\ GenerateIdle /\ RequirementsIdle /\ BuildDocsIdle
       /\ EncodeIdle /\ TranscodeIdle /\ RenderIdle /\ ScriptsIdle
       /\ NextEditor

Spec == Init /\ [][Next]_vars

====
